---- MODULE Spec2Model ----
(***************************************************************************)
(* SingleflightGroup.Do of github.com/catatsuy/cache (src/singleflight.go) *)
(* as a state machine: goroutines calling Do step through its statements,  *)
(* and every goroutine started by `go func() { ... delete(sf.m, key) }`    *)
(* is a removal task of its own.                                           *)
(***************************************************************************)
EXTENDS Integers, Sequences, FiniteSets, TLC

\* ------------------------------------------------------------------ bounds
NProcs == 2          \* goroutines that call Do
MaxDo == 2           \* sequential Do calls per goroutine
NCallers == 2        \* callers of the one-key scenario (TestDoDupSuppress)
MaxOps == 3          \* operations applied to a map cache
MaxTime == 2         \* ticks of the clock
MaxLength == 1       \* largest initial length of a RollingCache
MaxRolling == 4      \* operations applied to a RollingCache
NWorkers == 2        \* goroutines sharing a LockManager or a cache
MaxLockOps == 3      \* Lock, GetAndLock and Unlock calls per goroutine
MaxCacheOps == 2     \* calls each goroutine makes on a shared cache
MaxRefOps == 4       \* operations on a cache whose maps are tracked by reference

Procs == 1..NProcs
Callers == 1..NCallers
MaxCalls == IF NProcs * MaxDo > NCallers THEN NProcs * MaxDo ELSE NCallers
CallIds == 1..MaxCalls

\* ------------------------------------------------------------------ inputs
Keys == {"k1", "k2"}
NoKey == "nokey"

\* The zero value of V (string) and the nil error.
Zero == ""
Nil == "nil"

\* Producers (the fn argument of Do), each with the pair it returns.
Fns == {"fOk", "fErr", "fBoth"}
DoFns == {"fOk", "fBoth"}
NoFn == "nofn"

FnResult(f) ==
    CASE f = "fOk"   -> <<"bar", Nil>>
      [] f = "fErr"  -> <<Zero, "someErr">>
      [] f = "fBoth" -> <<"partial", "someErr">>

NoRet == <<"unset", "unset">>

\* A producer that panics instead of returning, and the producers of the
\* callers that may pass it.
Panics(f) == f = "fPanic"
PanicFns == {"fOk", "fPanic"}

\* ------------------------------------------------------------------ state
\* A nil *call[V] / an absent map entry, and an unlocked sync.Mutex.
NoCall == 0
Unlocked == <<"unlocked">>

VARIABLES
    mu,         \* sf.mu: Unlocked, <<"do", p>> or <<"go", c>> (a removal task)
    m,          \* sf.m: key -> call (NoCall when the key is absent)
    call,       \* the heap of call[V] records: mu, value, err, done
    rm,         \* started removal goroutines not yet holding sf.mu, per call
    pc,         \* where each goroutine is in Do
    key, fn,    \* the arguments of the goroutine's current Do
    c, ok,      \* the locals c and ok of Do
    ret,        \* the pair the goroutine's last Do returned
    nDo,        \* Do calls the goroutine has returned from
    gate,       \* the channel the scenario's producer blocks on
    \* history, read only by the properties
    callKey,    \* the key each call was created under
    ran,        \* the producers invoked on each call, in order
    delivered,  \* the pairs returned to callers of each call
    live,       \* calls inserted into sf.m and not deleted from it
    shared,     \* FALSE when the goroutine's current Do invoked its producer
    prevKey,    \* the key of the goroutine's previous Do
    attachedAtRelease, \* whether every caller held its call when the gate opened
    window,     \* whether a returned-from call held the key at DoEnter, at lookup
    flags,      \* the shared flags returned to callers of each call, in order
    \* the caches of cache.go
    kind,       \* the type of the cache under test
    items,      \* c.items: a map, or the slice of a RollingCache
    length,     \* c.length of a RollingCache
    now,        \* the reading of time.Now()
    log,        \* history: the operations applied to the cache, in order
    out,        \* what the last operation returned
    \* goroutines sharing one LockManager
    lm,         \* the LockManager: mu, locks and an insertion in progress
    mtx,        \* the heap of sync.Mutex values: TRUE when locked
    lk,         \* each goroutine's position in Lock, GetAndLock or Unlock
    halt,       \* "no", or how the program died: "fatal" or "panic"
    \* goroutines sharing one map cache
    rw,         \* the cache's embedded Mutex or RWMutex: writer and readers
    g,          \* each goroutine's position in a method of the cache
    lastSet,    \* history: the value of each key's last returned Set
    \* the maps and slices behind a cache and its caller
    heap,       \* the maps (slices) allocated so far, by reference
    itemsRef,   \* c.items: the reference the cache holds
    held        \* the reference the caller got from its last GetItems

cacheVars == <<kind, items, length, now, log, out>>

aliasVars == <<heap, itemsRef, held>>
syncVars == <<lm, mtx, lk, halt, rw, g, lastSet, aliasVars>>

\* State the Do of src/singleflight.go never touches.
elsewhere == <<flags, cacheVars, syncVars>>

vars == <<mu, m, call, rm, pc, key, fn, c, ok, ret, nDo, gate,
          callKey, ran, delivered, live, shared, prevKey, attachedAtRelease,
          window,
          flags, kind, items, length, now, log, out,
          lm, mtx, lk, halt, rw, g, lastSet,
          heap, itemsRef, held>>

hist == <<callKey, ran, delivered, live, shared, prevKey, attachedAtRelease,
          window>>

groupVars == <<mu, m, call, rm, pc, key, fn, c, ok, ret, nDo, gate,
               callKey, ran, delivered, live, shared, prevKey,
               attachedAtRelease, window, flags>>

NewCall == [mu |-> 0, value |-> Zero, err |-> Nil, done |-> FALSE]

\* ------------------------------------------------------- caches: values
\* The caches are instantiated with K = string and V = int8, one of the
\* integer types the Integer caches accept.
CKeys == {"a", "b"}
IntBits == 8
MinV == -(2 ^ (IntBits - 1))
MaxV == 2 ^ (IntBits - 1) - 1

\* Go's + on V: the sum, wrapped into the range of V.
Wrap(x) == ((x - MinV) % (2 ^ IntBits)) + MinV

\* `var zero V`, and the values the callers pass.
ZeroV == 0
Vals == {1, MaxV}

\* Durations passed to Set of the Expired caches, in ticks of the clock.
Durs == {-1, 1}

\* make(map[K]V), and Go's operations on a map.
EmptyMap == [k \in {} |-> ZeroV]
Has(mp, k) == k \in DOMAIN mp
Put(mp, k, v) == [x \in DOMAIN mp \cup {k} |-> IF x = k THEN v ELSE mp[x]]
Del(mp, k) == [x \in DOMAIN mp \ {k} |-> mp[x]]
Lookup(mp, k) == IF Has(mp, k) THEN <<mp[k], TRUE>> ELSE <<ZeroV, FALSE>>

\* The maps a caller can pass to SetItems.
Maps == UNION {[S -> Vals] : S \in SUBSET CKeys}

PlainKinds == {"WriteHeavyCache", "ReadHeavyCache"}
IntegerKinds == {"WriteHeavyCacheInteger", "ReadHeavyCacheInteger"}
MapKinds == PlainKinds \cup IntegerKinds
ExpiredKinds == {"WriteHeavyCacheExpired", "ReadHeavyCacheExpired"}

NoArg == <<"noarg">>
NoOut == [r |-> <<>>, pre |-> EmptyMap]

\* No cache has been constructed.
NoCache ==
    /\ kind = "none"
    /\ items = EmptyMap
    /\ length = 0
    /\ now = 0
    /\ log = <<>>
    /\ out = NoOut

\* Goroutines that share a LockManager or a cache, the keys they lock and
\* the calls each of them makes.
Workers == 1..NWorkers
LKeys == {1, 2}
NoMutex == 0
NoWorker == 0
NoWrite == 0

\* No LockManager and no shared cache has been constructed.
NoLockManager ==
    /\ lm = [mu |-> NoWorker, locks |-> [k \in LKeys |-> NoMutex],
             writing |-> NoWrite]
    /\ mtx = <<>>
    /\ lk = [p \in {} |-> 0]
    /\ halt = "no"

NoShared ==
    /\ rw = [w |-> NoWorker, r |-> {}]
    /\ g = [p \in {} |-> 0]
    /\ lastSet = EmptyMap

\* No map is tracked by reference.
NoRef == 0
NoAlias ==
    /\ heap = <<>>
    /\ itemsRef = NoRef
    /\ held = NoRef

NoSync == NoLockManager /\ NoShared /\ NoAlias

\* NewSingleflightGroup: an empty map; no goroutine has called Do yet.
NewGroup ==
    /\ mu = Unlocked
    /\ m = [k \in Keys |-> NoCall]
    /\ call = [i \in CallIds |-> NewCall]
    /\ rm = [i \in CallIds |-> 0]
    /\ pc = [p \in Procs |-> "idle"]
    /\ key = [p \in Procs |-> NoKey]
    /\ fn = [p \in Procs |-> NoFn]
    /\ c = [p \in Procs |-> NoCall]
    /\ ok = [p \in Procs |-> FALSE]
    /\ ret = [p \in Procs |-> NoRet]
    /\ nDo = [p \in Procs |-> 0]
    /\ gate = "none"
    /\ callKey = [i \in CallIds |-> NoKey]
    /\ ran = [i \in CallIds |-> <<>>]
    /\ delivered = [i \in CallIds |-> {}]
    /\ live = {}
    /\ shared = [p \in Procs |-> TRUE]
    /\ prevKey = [p \in Procs |-> NoKey]
    /\ attachedAtRelease = FALSE
    /\ window = [p \in Procs |-> <<FALSE, FALSE>>]
    /\ flags = [i \in CallIds |-> <<>>]

Init == NewGroup /\ NoCache /\ NoSync

\* The next unused heap cell: `&call[V]{}` allocates a record no one holds.
Allocated == {i \in CallIds : callKey[i] # NoKey}
FreshCall == Cardinality(Allocated) + 1

\* The goroutines of the behaviour (Procs, or Callers in the scenario).
Gs == DOMAIN pc

\* The deferred-retirement window of key k: the registry still holds a call
\* from which a Do has already returned.
Window(k) == m[k] # NoCall /\ delivered[m[k]] # {}

\* ------------------------------------------------------------------ Do
\* Line 52: a goroutine calls Do(k, f).
DoEnter(p, k, f) ==
    /\ pc[p] = "idle"
    /\ nDo[p] < MaxDo
    /\ pc' = [pc EXCEPT ![p] = "lock"]
    /\ key' = [key EXCEPT ![p] = k]
    /\ fn' = [fn EXCEPT ![p] = f]
    /\ prevKey' = [prevKey EXCEPT ![p] = key[p]]
    /\ UNCHANGED <<mu, m, call, rm, c, ok, ret, nDo, gate, callKey, ran,
                   delivered, live, shared, attachedAtRelease>>
    /\ UNCHANGED elsewhere

\* Mutant of DoLockRegistry: the lock is taken without waiting for it.
DoLockRegistryNoWait(p) ==
    /\ pc[p] = "lock"
    /\ mu' = <<"do", p>>
    /\ pc' = [pc EXCEPT ![p] = "lookup"]
    /\ UNCHANGED <<m, call, rm, key, fn, c, ok, ret, nDo, gate>>
    /\ UNCHANGED hist
    /\ UNCHANGED elsewhere

\* Line 54: sf.mu.Lock()
DoLockRegistry(p) ==
    /\ pc[p] = "lock"
    /\ mu = Unlocked
    /\ mu' = <<"do", p>>
    /\ pc' = [pc EXCEPT ![p] = "lookup"]
    /\ UNCHANGED <<m, call, rm, key, fn, c, ok, ret, nDo, gate>>
    /\ UNCHANGED hist
    /\ UNCHANGED elsewhere

\* Mutant of DoLookup: no lookup, a new call is inserted for every caller.
DoLookupAlwaysCreate(p) ==
    /\ pc[p] = "lookup"
    /\ c' = [c EXCEPT ![p] = FreshCall]
    /\ ok' = [ok EXCEPT ![p] = FALSE]
    /\ call' = [call EXCEPT ![FreshCall] = NewCall]
    /\ m' = [m EXCEPT ![key[p]] = FreshCall]
    /\ callKey' = [callKey EXCEPT ![FreshCall] = key[p]]
    /\ live' = live \cup {FreshCall}
    /\ pc' = [pc EXCEPT ![p] = "unlock"]
    /\ UNCHANGED <<mu, rm, key, fn, ret, nDo, gate, ran, delivered, shared,
                   prevKey, attachedAtRelease>>
    /\ UNCHANGED elsewhere

\* Mutant of DoLookup: a deleted record of the key is taken back into the map
\* as it is, instead of allocating a zeroed one.
DoLookupPooled(p) ==
    /\ pc[p] = "lookup"
    /\ LET old == {i \in CallIds : callKey[i] = key[p] /\ i \notin live}
           new == IF old # {} THEN CHOOSE i \in old : TRUE ELSE FreshCall
       IN IF m[key[p]] # NoCall
          THEN /\ c' = [c EXCEPT ![p] = m[key[p]]]
               /\ ok' = [ok EXCEPT ![p] = TRUE]
               /\ UNCHANGED <<m, call, callKey, live>>
          ELSE /\ c' = [c EXCEPT ![p] = new]
               /\ ok' = [ok EXCEPT ![p] = FALSE]
               /\ call' = IF old # {} THEN call
                          ELSE [call EXCEPT ![new] = NewCall]
               /\ m' = [m EXCEPT ![key[p]] = new]
               /\ callKey' = [callKey EXCEPT ![new] = key[p]]
               /\ live' = live \cup {new}
    /\ pc' = [pc EXCEPT ![p] = "unlock"]
    /\ UNCHANGED <<mu, rm, key, fn, ret, nDo, gate, ran, delivered, shared,
                   prevKey, attachedAtRelease>>
    /\ UNCHANGED elsewhere

\* Lines 59-63: c, ok = sf.m[key]; if !ok { c = &call[V]{}; sf.m[key] = c }
DoLookup(p) ==
    /\ pc[p] = "lookup"
    /\ IF m[key[p]] # NoCall
       THEN /\ c' = [c EXCEPT ![p] = m[key[p]]]
            /\ ok' = [ok EXCEPT ![p] = TRUE]
            /\ UNCHANGED <<m, call, callKey, live>>
       ELSE /\ c' = [c EXCEPT ![p] = FreshCall]
            /\ ok' = [ok EXCEPT ![p] = FALSE]
            /\ call' = [call EXCEPT ![FreshCall] = NewCall]
            /\ m' = [m EXCEPT ![key[p]] = FreshCall]
            /\ callKey' = [callKey EXCEPT ![FreshCall] = key[p]]
            /\ live' = live \cup {FreshCall}
    /\ pc' = [pc EXCEPT ![p] = "unlock"]
    /\ UNCHANGED <<mu, rm, key, fn, ret, nDo, gate, ran, delivered, shared,
                   prevKey, attachedAtRelease>>
    /\ UNCHANGED elsewhere

\* Mutant of DoUnlockRegistry: the registry lock is kept across the call.
DoUnlockRegistryKeep(p) ==
    /\ pc[p] = "unlock"
    /\ pc' = [pc EXCEPT ![p] = "clock"]
    /\ UNCHANGED <<mu, m, call, rm, key, fn, c, ok, ret, nDo, gate>>
    /\ UNCHANGED hist
    /\ UNCHANGED elsewhere

\* Line 64: sf.mu.Unlock()
DoUnlockRegistry(p) ==
    /\ pc[p] = "unlock"
    /\ mu' = Unlocked
    /\ pc' = [pc EXCEPT ![p] = "clock"]
    /\ UNCHANGED <<m, call, rm, key, fn, c, ok, ret, nDo, gate>>
    /\ UNCHANGED hist
    /\ UNCHANGED elsewhere

\* Mutant of DoLockCall: the caller goes on without waiting for the lock.
DoLockCallNoWait(p) ==
    /\ pc[p] = "clock"
    /\ call' = [call EXCEPT ![c[p]].mu = p]
    /\ pc' = [pc EXCEPT ![p] = "check"]
    /\ UNCHANGED <<mu, m, rm, key, fn, c, ok, ret, nDo, gate>>
    /\ UNCHANGED hist
    /\ UNCHANGED elsewhere

\* Line 67: c.mu.Lock()
DoLockCall(p) ==
    /\ pc[p] = "clock"
    /\ call[c[p]].mu = 0
    /\ call' = [call EXCEPT ![c[p]].mu = p]
    /\ pc' = [pc EXCEPT ![p] = "check"]
    /\ UNCHANGED <<mu, m, rm, key, fn, c, ok, ret, nDo, gate>>
    /\ UNCHANGED hist
    /\ UNCHANGED elsewhere

\* Mutant of DoCheckDone: fn is invoked whether or not c.done is set.
DoCheckDoneAlwaysRun(p) ==
    /\ pc[p] = "check"
    /\ pc' = [pc EXCEPT ![p] = "fn"]
    /\ ran' = [ran EXCEPT ![c[p]] = Append(@, fn[p])]
    /\ shared' = [shared EXCEPT ![p] = FALSE]
    /\ UNCHANGED <<mu, m, call, rm, key, fn, c, ok, ret, nDo, gate, callKey,
                   delivered, live, prevKey, attachedAtRelease,
                   window>>
    /\ UNCHANGED elsewhere

\* Mutant of DoCheckDone: c.mu is released before fn is invoked.
DoCheckDoneUnlocked(p) ==
    /\ pc[p] = "check"
    /\ IF call[c[p]].done
       THEN /\ pc' = [pc EXCEPT ![p] = "cunlock"]
            /\ UNCHANGED <<call, ran, shared>>
       ELSE /\ pc' = [pc EXCEPT ![p] = "fn"]
            /\ call' = [call EXCEPT ![c[p]].mu = 0]
            /\ ran' = [ran EXCEPT ![c[p]] = Append(@, fn[p])]
            /\ shared' = [shared EXCEPT ![p] = FALSE]
    /\ UNCHANGED <<mu, m, rm, key, fn, c, ok, ret, nDo, gate, callKey,
                   delivered, live, prevKey, attachedAtRelease,
                   window>>
    /\ UNCHANGED elsewhere

\* Lines 68-70: if !c.done, fn is invoked (it has not returned yet).
DoCheckDone(p) ==
    /\ pc[p] = "check"
    /\ IF call[c[p]].done
       THEN /\ pc' = [pc EXCEPT ![p] = "cunlock"]
            /\ UNCHANGED <<ran, shared>>
       ELSE /\ pc' = [pc EXCEPT ![p] = "fn"]
            /\ ran' = [ran EXCEPT ![c[p]] = Append(@, fn[p])]
            /\ shared' = [shared EXCEPT ![p] = FALSE]
    /\ UNCHANGED <<mu, m, call, rm, key, fn, c, ok, ret, nDo, gate, callKey,
                   delivered, live, prevKey, attachedAtRelease,
                   window>>
    /\ UNCHANGED elsewhere

\* The scenario's producer blocks on a channel until the test sends to it.
FnCanReturn == gate # "closed"

\* Mutant of DoStoreResult: the value is dropped when fn returns an error.
DoStoreResultZeroOnErr(p) ==
    /\ pc[p] = "fn"
    /\ FnCanReturn
    /\ ~Panics(fn[p])
    /\ call' = [call EXCEPT
                  ![c[p]].value = IF FnResult(fn[p])[2] # Nil THEN Zero
                                  ELSE FnResult(fn[p])[1],
                  ![c[p]].err = FnResult(fn[p])[2]]
    /\ pc' = [pc EXCEPT ![p] = "setdone"]
    /\ UNCHANGED <<mu, m, rm, key, fn, c, ok, ret, nDo, gate>>
    /\ UNCHANGED hist
    /\ UNCHANGED elsewhere

\* Line 70: fn returns and c.value, c.err are assigned.
DoStoreResult(p) ==
    /\ pc[p] = "fn"
    /\ FnCanReturn
    /\ ~Panics(fn[p])
    /\ call' = [call EXCEPT ![c[p]].value = FnResult(fn[p])[1],
                            ![c[p]].err = FnResult(fn[p])[2]]
    /\ pc' = [pc EXCEPT ![p] = "setdone"]
    /\ UNCHANGED <<mu, m, rm, key, fn, c, ok, ret, nDo, gate>>
    /\ UNCHANGED hist
    /\ UNCHANGED elsewhere

\* Mutant of DoSetDone: after an error the call is left not done and the
\* producer is tried again.
DoSetDoneRetryOnErr(p) ==
    /\ pc[p] = "setdone"
    /\ IF call[c[p]].err # Nil
       THEN /\ pc' = [pc EXCEPT ![p] = "check"]
            /\ UNCHANGED call
       ELSE /\ call' = [call EXCEPT ![c[p]].done = TRUE]
            /\ pc' = [pc EXCEPT ![p] = "cunlock"]
    /\ UNCHANGED <<mu, m, rm, key, fn, c, ok, ret, nDo, gate>>
    /\ UNCHANGED hist
    /\ UNCHANGED elsewhere

\* Line 70: fn panics.  Do has no defer and no recover: the goroutine leaves
\* Do with c.mu locked and nothing after line 70 is executed.
DoPanic(p) ==
    /\ pc[p] = "fn"
    /\ Panics(fn[p])
    /\ pc' = [pc EXCEPT ![p] = "panicked"]
    /\ UNCHANGED <<mu, m, call, rm, key, fn, c, ok, ret, nDo, gate>>
    /\ UNCHANGED hist
    /\ UNCHANGED elsewhere

\* Line 71: c.done = true
DoSetDone(p) ==
    /\ pc[p] = "setdone"
    /\ call' = [call EXCEPT ![c[p]].done = TRUE]
    /\ pc' = [pc EXCEPT ![p] = "cunlock"]
    /\ UNCHANGED <<mu, m, rm, key, fn, c, ok, ret, nDo, gate>>
    /\ UNCHANGED hist
    /\ UNCHANGED elsewhere

\* Mutant of DoUnlockCall: the call's lock is never released.
DoUnlockCallKeep(p) ==
    /\ pc[p] = "cunlock"
    /\ pc' = [pc EXCEPT ![p] = "spawn"]
    /\ UNCHANGED <<mu, m, call, rm, key, fn, c, ok, ret, nDo, gate>>
    /\ UNCHANGED hist
    /\ UNCHANGED elsewhere

\* Line 73: c.mu.Unlock()
DoUnlockCall(p) ==
    /\ pc[p] = "cunlock"
    /\ call' = [call EXCEPT ![c[p]].mu = 0]
    /\ pc' = [pc EXCEPT ![p] = "spawn"]
    /\ UNCHANGED <<mu, m, rm, key, fn, c, ok, ret, nDo, gate>>
    /\ UNCHANGED hist
    /\ UNCHANGED elsewhere

\* Mutant of DoSpawnRemoval: no removal task is started.
DoSpawnRemovalSkip(p) ==
    /\ pc[p] = "spawn"
    /\ pc' = [pc EXCEPT ![p] = "return"]
    /\ UNCHANGED <<mu, m, call, rm, key, fn, c, ok, ret, nDo, gate>>
    /\ UNCHANGED hist
    /\ UNCHANGED elsewhere

\* Lines 76-80: go func() { ... }() starts a removal task for key.
DoSpawnRemoval(p) ==
    /\ pc[p] = "spawn"
    /\ rm' = [rm EXCEPT ![c[p]] = @ + 1]
    /\ pc' = [pc EXCEPT ![p] = "return"]
    /\ UNCHANGED <<mu, m, call, key, fn, c, ok, ret, nDo, gate>>
    /\ UNCHANGED hist
    /\ UNCHANGED elsewhere

\* Line 82: return c.value, c.err
DoReturn(p) ==
    /\ pc[p] = "return"
    /\ ret' = [ret EXCEPT ![p] = <<call[c[p]].value, call[c[p]].err>>]
    /\ delivered' = [delivered EXCEPT
                       ![c[p]] = @ \cup {<<call[c[p]].value, call[c[p]].err>>}]
    /\ nDo' = [nDo EXCEPT ![p] = @ + 1]
    /\ pc' = [pc EXCEPT ![p] = "returned"]
    /\ UNCHANGED <<mu, m, call, rm, key, fn, c, ok, gate, callKey, ran, live,
                   shared, prevKey, attachedAtRelease,
                   window>>
    /\ UNCHANGED elsewhere

\* The caller has the pair and goes on; the locals of its Do are gone.
Continue(p) ==
    /\ pc[p] = "returned"
    /\ pc' = [pc EXCEPT ![p] = "idle"]
    /\ fn' = [fn EXCEPT ![p] = NoFn]
    /\ c' = [c EXCEPT ![p] = NoCall]
    /\ ok' = [ok EXCEPT ![p] = FALSE]
    /\ ret' = [ret EXCEPT ![p] = NoRet]
    /\ shared' = [shared EXCEPT ![p] = TRUE]
    /\ UNCHANGED <<mu, m, call, rm, key, nDo, gate, callKey, ran, delivered,
                   live, prevKey, attachedAtRelease>>
    /\ UNCHANGED elsewhere

\* ------------------------------------------------------------ removal task
\* Line 77: sf.mu.Lock() in the goroutine started by the Do attached to call i.
RemovalLock(i) ==
    /\ rm[i] > 0
    /\ mu = Unlocked
    /\ mu' = <<"go", i>>
    /\ rm' = [rm EXCEPT ![i] = @ - 1]
    /\ UNCHANGED <<m, call, pc, key, fn, c, ok, ret, nDo, gate>>
    /\ UNCHANGED hist
    /\ UNCHANGED elsewhere

\* Lines 78-79: delete(sf.m, key); sf.mu.Unlock()
RemovalDelete(i) ==
    /\ mu = <<"go", i>>
    /\ m' = [m EXCEPT ![callKey[i]] = NoCall]
    /\ live' = live \ {m[callKey[i]]}
    /\ mu' = Unlocked
    /\ UNCHANGED <<call, rm, pc, key, fn, c, ok, ret, nDo, gate, callKey, ran,
                   delivered, shared, prevKey, attachedAtRelease,
                   window>>
    /\ UNCHANGED elsewhere

\* ------------------------------------------------------------ specification
\* Any goroutine calls Do with any key and producer, MaxDo times in a row.
Next ==
    \/ \E p \in Procs, k \in Keys, f \in DoFns : DoEnter(p, k, f) /\ UNCHANGED window
    \/ \E p \in Procs : DoLockRegistry(p)
    \/ \E p \in Procs : DoLookup(p) /\ UNCHANGED window
    \/ \E p \in Procs : DoUnlockRegistry(p)
    \/ \E p \in Procs : DoLockCall(p)
    \/ \E p \in Procs : DoCheckDone(p)
    \/ \E p \in Procs : DoStoreResult(p)
    \/ \E p \in Procs : DoSetDone(p)
    \/ \E p \in Procs : DoUnlockCall(p)
    \/ \E p \in Procs : DoSpawnRemoval(p)
    \/ \E p \in Procs : DoReturn(p)
    \/ \E p \in Procs : Continue(p) /\ UNCHANGED window
    \/ \E i \in CallIds : RemovalLock(i)
    \/ \E i \in CallIds : RemovalDelete(i)

Spec == Init /\ [][Next]_vars

\* The same callers, some of whose producers panic.
NextPanic ==
    \/ \E p \in Procs, k \in Keys, f \in PanicFns : DoEnter(p, k, f) /\ UNCHANGED window
    \/ \E p \in Procs : DoLockRegistry(p)
    \/ \E p \in Procs : DoLookup(p) /\ UNCHANGED window
    \/ \E p \in Procs : DoUnlockRegistry(p)
    \/ \E p \in Procs : DoLockCall(p)
    \/ \E p \in Procs : DoCheckDone(p)
    \/ \E p \in Procs : DoStoreResult(p)
    \/ \E p \in Procs : DoPanic(p)
    \/ \E p \in Procs : DoSetDone(p)
    \/ \E p \in Procs : DoUnlockCall(p)
    \/ \E p \in Procs : DoSpawnRemoval(p)
    \/ \E p \in Procs : DoReturn(p)
    \/ \E p \in Procs : Continue(p) /\ UNCHANGED window
    \/ \E i \in CallIds : RemovalLock(i)
    \/ \E i \in CallIds : RemovalDelete(i)

SpecPanic == Init /\ [][NextPanic]_vars

\* ------------------------------------------- the Do that reports `shared`
\* The Do of src/unnamed/part_008 returns (v, err, shared).  Its lines 49-62
\* are lines 54-70 of src/singleflight.go; from c.done = true on it differs:
\* only the goroutine that ran fn starts the removal, before it unlocks c.mu.

\* Line 63: c.done = true
SharedSetDone(p) ==
    /\ pc[p] = "setdone"
    /\ call' = [call EXCEPT ![c[p]].done = TRUE]
    /\ pc' = [pc EXCEPT ![p] = "xspawn"]
    /\ UNCHANGED <<mu, m, rm, key, fn, c, ok, ret, nDo, gate>>
    /\ UNCHANGED hist
    /\ UNCHANGED elsewhere

\* Lines 66-70: go func() { ... }() starts the removal task for key.
SharedSpawnRemoval(p) ==
    /\ pc[p] = "xspawn"
    /\ rm' = [rm EXCEPT ![c[p]] = @ + 1]
    /\ pc' = [pc EXCEPT ![p] = "xunlock"]
    /\ UNCHANGED <<mu, m, call, key, fn, c, ok, ret, nDo, gate>>
    /\ UNCHANGED hist
    /\ UNCHANGED elsewhere

\* Line 72: c.mu.Unlock() in the branch that ran fn.
SharedUnlockExecutor(p) ==
    /\ pc[p] = "xunlock"
    /\ call' = [call EXCEPT ![c[p]].mu = 0]
    /\ pc' = [pc EXCEPT ![p] = "xreturn"]
    /\ UNCHANGED <<mu, m, rm, key, fn, c, ok, ret, nDo, gate>>
    /\ UNCHANGED hist
    /\ UNCHANGED elsewhere

\* Line 74: return c.value, c.err, false
SharedReturnExecutor(p) ==
    /\ pc[p] = "xreturn"
    /\ ret' = [ret EXCEPT ![p] = <<call[c[p]].value, call[c[p]].err, FALSE>>]
    /\ delivered' = [delivered EXCEPT
                       ![c[p]] = @ \cup {<<call[c[p]].value, call[c[p]].err>>}]
    /\ flags' = [flags EXCEPT ![c[p]] = Append(@, FALSE)]
    /\ nDo' = [nDo EXCEPT ![p] = @ + 1]
    /\ pc' = [pc EXCEPT ![p] = "returned"]
    /\ UNCHANGED <<mu, m, call, rm, key, fn, c, ok, gate, callKey, ran, live,
                   shared, prevKey, attachedAtRelease,
                   window>>
    /\ UNCHANGED <<cacheVars, syncVars>>

\* Line 76: c.mu.Unlock() when the call was found done.
SharedUnlockAttached(p) ==
    /\ pc[p] = "cunlock"
    /\ call' = [call EXCEPT ![c[p]].mu = 0]
    /\ pc' = [pc EXCEPT ![p] = "sreturn"]
    /\ UNCHANGED <<mu, m, rm, key, fn, c, ok, ret, nDo, gate>>
    /\ UNCHANGED hist
    /\ UNCHANGED elsewhere

\* Mutant of SharedReturnAttached: the flag is false on this path too.
SharedReturnAttachedFalse(p) ==
    /\ pc[p] = "sreturn"
    /\ ret' = [ret EXCEPT ![p] = <<call[c[p]].value, call[c[p]].err, FALSE>>]
    /\ delivered' = [delivered EXCEPT
                       ![c[p]] = @ \cup {<<call[c[p]].value, call[c[p]].err>>}]
    /\ flags' = [flags EXCEPT ![c[p]] = Append(@, FALSE)]
    /\ nDo' = [nDo EXCEPT ![p] = @ + 1]
    /\ pc' = [pc EXCEPT ![p] = "returned"]
    /\ UNCHANGED <<mu, m, call, rm, key, fn, c, ok, gate, callKey, ran, live,
                   shared, prevKey, attachedAtRelease,
                   window>>
    /\ UNCHANGED <<cacheVars, syncVars>>

\* Line 78: return c.value, c.err, true
SharedReturnAttached(p) ==
    /\ pc[p] = "sreturn"
    /\ ret' = [ret EXCEPT ![p] = <<call[c[p]].value, call[c[p]].err, TRUE>>]
    /\ delivered' = [delivered EXCEPT
                       ![c[p]] = @ \cup {<<call[c[p]].value, call[c[p]].err>>}]
    /\ flags' = [flags EXCEPT ![c[p]] = Append(@, TRUE)]
    /\ nDo' = [nDo EXCEPT ![p] = @ + 1]
    /\ pc' = [pc EXCEPT ![p] = "returned"]
    /\ UNCHANGED <<mu, m, call, rm, key, fn, c, ok, gate, callKey, ran, live,
                   shared, prevKey, attachedAtRelease,
                   window>>
    /\ UNCHANGED <<cacheVars, syncVars>>

NextShared ==
    \/ \E p \in Procs, k \in Keys, f \in DoFns : DoEnter(p, k, f) /\ UNCHANGED window
    \/ \E p \in Procs : DoLockRegistry(p)
    \/ \E p \in Procs : DoLookup(p) /\ UNCHANGED window
    \/ \E p \in Procs : DoUnlockRegistry(p)
    \/ \E p \in Procs : DoLockCall(p)
    \/ \E p \in Procs : DoCheckDone(p)
    \/ \E p \in Procs : DoStoreResult(p)
    \/ \E p \in Procs : SharedSetDone(p)
    \/ \E p \in Procs : SharedSpawnRemoval(p)
    \/ \E p \in Procs : SharedUnlockExecutor(p)
    \/ \E p \in Procs : SharedReturnExecutor(p)
    \/ \E p \in Procs : SharedUnlockAttached(p)
    \/ \E p \in Procs : SharedReturnAttached(p)
    \/ \E p \in Procs : Continue(p) /\ UNCHANGED window
    \/ \E i \in CallIds : RemovalLock(i)
    \/ \E i \in CallIds : RemovalDelete(i)

SpecShared == Init /\ [][NextShared]_vars



\* ------------------------------------------------- the one-key scenario
\* TestDoDupSuppress and TestDoMultipleErrors (src/singleflight_test.go): a new
\* group, NCallers goroutines, each calling Do once with the same key and the
\* same producer.  With a gate, the producer blocks until the test releases it.
ScenarioKey == "k1"

InitScenario ==
    /\ mu = Unlocked
    /\ m = [k \in Keys |-> NoCall]
    /\ call = [i \in CallIds |-> NewCall]
    /\ rm = [i \in CallIds |-> 0]
    /\ pc = [p \in Callers |-> "idle"]
    /\ key = [p \in Callers |-> NoKey]
    /\ fn = [p \in Callers |-> NoFn]
    /\ c = [p \in Callers |-> NoCall]
    /\ ok = [p \in Callers |-> FALSE]
    /\ ret = [p \in Callers |-> NoRet]
    /\ nDo = [p \in Callers |-> 0]
    /\ gate \in {"none", "closed"}
    /\ callKey = [i \in CallIds |-> NoKey]
    /\ ran = [i \in CallIds |-> <<>>]
    /\ delivered = [i \in CallIds |-> {}]
    /\ live = {}
    /\ shared = [p \in Callers |-> TRUE]
    /\ prevKey = [p \in Callers |-> NoKey]
    /\ attachedAtRelease = FALSE
    /\ window = [p \in Callers |-> <<FALSE, FALSE>>]
    /\ flags = [i \in CallIds |-> <<>>]
    /\ NoCache
    /\ NoSync

\* go func() { ...; sf.Do("key", fn) }(): every caller passes the same producer.
ScenarioEnter(p) ==
    /\ nDo[p] = 0
    /\ \E f \in Fns :
          /\ \A q \in Callers : fn[q] \in {NoFn, f}
          /\ DoEnter(p, ScenarioKey, f)

\* A caller has entered Do once it has made the call; it is attached once the
\* find-or-create of lines 54-64 has given it its call.
Entered(p) == pc[p] # "idle"
Attached(p) == c[p] # NoCall

\* wg1.Wait(); c <- "bar": the test opens the gate once the producer has been
\* invoked and every goroutine has reached its Do call.
Release ==
    /\ gate = "closed"
    /\ \E p \in Callers : pc[p] = "fn"
    /\ \A p \in Callers : Entered(p)
    /\ gate' = "open"
    /\ attachedAtRelease' = \A p \in Callers : Attached(p)
    /\ UNCHANGED <<mu, m, call, rm, pc, key, fn, c, ok, ret, nDo, callKey, ran,
                   delivered, live, shared, prevKey, window>>
    /\ UNCHANGED elsewhere

NextScenario ==
    \/ \E p \in Callers : ScenarioEnter(p) /\ UNCHANGED window
    \/ \E p \in Callers : DoLockRegistry(p)
    \/ \E p \in Callers : DoLookup(p) /\ UNCHANGED window
    \/ \E p \in Callers : DoUnlockRegistry(p)
    \/ \E p \in Callers : DoLockCall(p)
    \/ \E p \in Callers : DoCheckDone(p)
    \/ \E p \in Callers : DoStoreResult(p)
    \/ \E p \in Callers : DoSetDone(p)
    \/ \E p \in Callers : DoUnlockCall(p)
    \/ \E p \in Callers : DoSpawnRemoval(p)
    \/ \E p \in Callers : DoReturn(p)
    \/ \E i \in CallIds : RemovalLock(i)
    \/ \E i \in CallIds : RemovalDelete(i)
    \/ Release

SpecScenario == InitScenario /\ [][NextScenario]_vars

\* ------------------------------------------------------------ fair scheduling
\* The Go scheduler runs every runnable goroutine, and a goroutine waiting in
\* sync.Mutex.Lock is handed the lock after a bounded wait (starvation mode):
\* a step that is enabled again and again is taken.
DoStep(p) ==
    \/ DoLockRegistry(p)
    \/ DoLookup(p) /\ UNCHANGED window
    \/ DoUnlockRegistry(p)
    \/ DoLockCall(p)
    \/ DoCheckDone(p)
    \/ DoStoreResult(p)
    \/ DoSetDone(p)
    \/ DoUnlockCall(p)
    \/ DoSpawnRemoval(p)
    \/ DoReturn(p)

Removal(i) == RemovalLock(i) \/ RemovalDelete(i)

\* The test starts every one of its goroutines, and sends on the channel once
\* its condition for doing so holds.
Fairness ==
    /\ \A p \in Callers : SF_vars(DoStep(p))
    /\ \A i \in CallIds : SF_vars(Removal(i))
    /\ \A p \in Callers : WF_vars(ScenarioEnter(p) /\ UNCHANGED window)
    /\ WF_vars(Release)

FairScenario == SpecScenario /\ Fairness

\* ------------------------------------------- deferred retirement, one key
\* The callers of Spec, all with ScenarioKey; `window` records for each Do
\* whether it was called, and whether it looked the key up, in the window.
NextWindow ==
    \/ \E p \in Procs, f \in DoFns :
          /\ DoEnter(p, ScenarioKey, f)
          /\ window' = [window EXCEPT ![p] = <<Window(ScenarioKey), FALSE>>]
    \/ \E p \in Procs : DoLockRegistry(p)
    \/ \E p \in Procs :
          /\ DoLookup(p)
          /\ window' = [window EXCEPT ![p] = <<@[1], Window(key[p])>>]
    \/ \E p \in Procs : DoUnlockRegistry(p)
    \/ \E p \in Procs : DoLockCall(p)
    \/ \E p \in Procs : DoCheckDone(p)
    \/ \E p \in Procs : DoStoreResult(p)
    \/ \E p \in Procs : DoSetDone(p)
    \/ \E p \in Procs : DoUnlockCall(p)
    \/ \E p \in Procs : DoSpawnRemoval(p)
    \/ \E p \in Procs : DoReturn(p)
    \/ \E p \in Procs :
          /\ Continue(p)
          /\ window' = [window EXCEPT ![p] = <<FALSE, FALSE>>]
    \/ \E i \in CallIds : RemovalLock(i)
    \/ \E i \in CallIds : RemovalDelete(i)

SpecWindow == Init /\ [][NextWindow]_vars


\* ------------------------------------------------------------ caches
\* The methods of cache.go (src/unnamed/part_004 has all of them).  Each takes
\* the lock of its cache for its whole body, so a method is one step.
Last == log[Len(log)]
Before == SubSeq(log, 1, Len(log) - 1)
Record(op, k, a) == Append(log, [op |-> op, key |-> k, arg |-> a, at |-> now])
Returns(r) == [r |-> r, pre |-> items]

\* NewWriteHeavyCache, NewReadHeavyCache and their Integer counterparts.
InitCache ==
    /\ NewGroup
    /\ NoSync
    /\ kind \in MapKinds
    /\ items = EmptyMap
    /\ length = 0
    /\ now = 0
    /\ log = <<>>
    /\ out = NoOut

\* Set: c.items[key] = value
Set(k, v) ==
    /\ kind \in MapKinds
    /\ Len(log) < MaxOps
    /\ items' = Put(items, k, v)
    /\ log' = Record("Set", k, v)
    /\ out' = Returns(<<>>)
    /\ UNCHANGED <<kind, length, now>>
    /\ UNCHANGED <<groupVars, syncVars>>

\* Get: v, found := c.items[key]; return v, found
Get(k) ==
    /\ kind \in MapKinds
    /\ Len(log) < MaxOps
    /\ log' = Record("Get", k, NoArg)
    /\ out' = Returns(Lookup(items, k))
    /\ UNCHANGED <<kind, items, length, now>>
    /\ UNCHANGED <<groupVars, syncVars>>

\* Mutant of Delete: the entry stays.
DeleteKeeps(k) ==
    /\ kind \in MapKinds
    /\ Len(log) < MaxOps
    /\ log' = Record("Delete", k, NoArg)
    /\ out' = Returns(<<>>)
    /\ UNCHANGED <<kind, items, length, now>>
    /\ UNCHANGED <<groupVars, syncVars>>

\* Delete: delete(c.items, key)
Delete(k) ==
    /\ kind \in MapKinds
    /\ Len(log) < MaxOps
    /\ items' = Del(items, k)
    /\ log' = Record("Delete", k, NoArg)
    /\ out' = Returns(<<>>)
    /\ UNCHANGED <<kind, length, now>>
    /\ UNCHANGED <<groupVars, syncVars>>

\* Clear: c.items = make(map[K]V)
Clear ==
    /\ kind \in MapKinds
    /\ Len(log) < MaxOps
    /\ items' = EmptyMap
    /\ log' = Record("Clear", NoKey, NoArg)
    /\ out' = Returns(<<>>)
    /\ UNCHANGED <<kind, length, now>>
    /\ UNCHANGED <<groupVars, syncVars>>

\* Mutant of SetItems: the given entries are merged into the present ones.
SetItemsMerge(mp) ==
    /\ kind \in MapKinds
    /\ Len(log) < MaxOps
    /\ items' = [k \in DOMAIN items \cup DOMAIN mp |->
                   IF k \in DOMAIN mp THEN mp[k] ELSE items[k]]
    /\ log' = Record("SetItems", NoKey, mp)
    /\ out' = Returns(<<>>)
    /\ UNCHANGED <<kind, length, now>>
    /\ UNCHANGED <<groupVars, syncVars>>

\* SetItems: c.items = items
SetItems(mp) ==
    /\ kind \in MapKinds
    /\ Len(log) < MaxOps
    /\ items' = mp
    /\ log' = Record("SetItems", NoKey, mp)
    /\ out' = Returns(<<>>)
    /\ UNCHANGED <<kind, length, now>>
    /\ UNCHANGED <<groupVars, syncVars>>

\* Size: return len(c.items)
Size ==
    /\ kind \in MapKinds
    /\ Len(log) < MaxOps
    /\ log' = Record("Size", NoKey, NoArg)
    /\ out' = Returns(<<Cardinality(DOMAIN items)>>)
    /\ UNCHANGED <<kind, items, length, now>>
    /\ UNCHANGED <<groupVars, syncVars>>

\* Mutant of Incr: the given value is stored whether or not the key exists.
IncrOverwrite(k, v) ==
    /\ kind \in IntegerKinds
    /\ Len(log) < MaxOps
    /\ items' = Put(items, k, v)
    /\ log' = Record("Incr", k, v)
    /\ out' = Returns(<<>>)
    /\ UNCHANGED <<kind, length, now>>
    /\ UNCHANGED <<groupVars, syncVars>>

\* Incr (Integer caches): if found { c.items[key] = v + value } else
\* { c.items[key] = value }
Incr(k, v) ==
    /\ kind \in IntegerKinds
    /\ Len(log) < MaxOps
    /\ items' = IF Has(items, k) THEN Put(items, k, Wrap(items[k] + v))
                ELSE Put(items, k, v)
    /\ log' = Record("Incr", k, v)
    /\ out' = Returns(<<>>)
    /\ UNCHANGED <<kind, length, now>>
    /\ UNCHANGED <<groupVars, syncVars>>

NextCache ==
    \/ \E k \in CKeys, v \in Vals : Set(k, v)
    \/ \E k \in CKeys : Get(k)
    \/ \E k \in CKeys : Delete(k)
    \/ Clear
    \/ \E mp \in Maps : SetItems(mp)
    \/ Size
    \/ \E k \in CKeys, v \in Vals : Incr(k, v)

SpecCache == InitCache /\ [][NextCache]_vars

\* ------------------------------------------------------------ Expired caches
\* time.Time.After
After(t, u) == t > u

\* NewWriteHeavyCacheExpired, NewReadHeavyCacheExpired
InitExpired ==
    /\ NewGroup
    /\ NoSync
    /\ kind \in ExpiredKinds
    /\ items = EmptyMap
    /\ length = 0
    /\ now = 0
    /\ log = <<>>
    /\ out = NoOut

\* Time passes.
Tick ==
    /\ kind \in ExpiredKinds
    /\ now < MaxTime
    /\ now' = now + 1
    /\ UNCHANGED <<kind, items, length, log, out>>
    /\ UNCHANGED <<groupVars, syncVars>>

\* Set: val := expiredValue{value, time.Now().Add(duration)}; c.items[key] = val
SetExpired(k, v, d) ==
    /\ kind \in ExpiredKinds
    /\ Len(log) < MaxOps
    /\ items' = Put(items, k, [value |-> v, expire |-> now + d])
    /\ log' = Record("Set", k, <<v, d>>)
    /\ out' = Returns(<<>>)
    /\ UNCHANGED <<kind, length, now>>
    /\ UNCHANGED <<groupVars, syncVars>>

\* Mutant of GetExpired: an entry is not found from its expiry instant on.
GetExpiredNotBefore(k) ==
    /\ kind \in ExpiredKinds
    /\ Len(log) < MaxOps
    /\ log' = Record("Get", k, NoArg)
    /\ out' = Returns(IF ~Has(items, k) \/ now >= items[k].expire
                      THEN <<ZeroV, FALSE>>
                      ELSE <<items[k].value, TRUE>>)
    /\ UNCHANGED <<kind, items, length, now>>
    /\ UNCHANGED <<groupVars, syncVars>>

\* Mutant of GetExpired: an entry found expired is deleted.
GetExpiredEvicts(k) ==
    /\ kind \in ExpiredKinds
    /\ Len(log) < MaxOps
    /\ log' = Record("Get", k, NoArg)
    /\ out' = Returns(IF ~Has(items, k) \/ After(now, items[k].expire)
                      THEN <<ZeroV, FALSE>>
                      ELSE <<items[k].value, TRUE>>)
    /\ items' = IF Has(items, k) /\ After(now, items[k].expire)
                THEN Del(items, k) ELSE items
    /\ UNCHANGED <<kind, length, now>>
    /\ UNCHANGED <<groupVars, syncVars>>

\* Get: if !found || time.Now().After(v.expire) { return zero, false };
\* return v.value, true
GetExpired(k) ==
    /\ kind \in ExpiredKinds
    /\ Len(log) < MaxOps
    /\ log' = Record("Get", k, NoArg)
    /\ out' = Returns(IF ~Has(items, k) \/ After(now, items[k].expire)
                      THEN <<ZeroV, FALSE>>
                      ELSE <<items[k].value, TRUE>>)
    /\ UNCHANGED <<kind, items, length, now>>
    /\ UNCHANGED <<groupVars, syncVars>>

\* GetWithExpireStatus: if !found { return zero, false, false };
\* return v.value, true, time.Now().After(v.expire)
GetWithExpireStatus(k) ==
    /\ kind \in ExpiredKinds
    /\ Len(log) < MaxOps
    /\ log' = Record("GetWithExpireStatus", k, NoArg)
    /\ out' = Returns(IF ~Has(items, k)
                      THEN <<ZeroV, FALSE, FALSE>>
                      ELSE <<items[k].value, TRUE,
                             After(now, items[k].expire)>>)
    /\ UNCHANGED <<kind, items, length, now>>
    /\ UNCHANGED <<groupVars, syncVars>>

\* Delete: delete(c.items, key)
DeleteExpired(k) ==
    /\ kind \in ExpiredKinds
    /\ Len(log) < MaxOps
    /\ items' = Del(items, k)
    /\ log' = Record("Delete", k, NoArg)
    /\ out' = Returns(<<>>)
    /\ UNCHANGED <<kind, length, now>>
    /\ UNCHANGED <<groupVars, syncVars>>

\* Clear: c.items = make(map[K]expiredValue[V])
ClearExpired ==
    /\ kind \in ExpiredKinds
    /\ Len(log) < MaxOps
    /\ items' = EmptyMap
    /\ log' = Record("Clear", NoKey, NoArg)
    /\ out' = Returns(<<>>)
    /\ UNCHANGED <<kind, length, now>>
    /\ UNCHANGED <<groupVars, syncVars>>

NextExpired ==
    \/ Tick
    \/ \E k \in CKeys, v \in Vals, d \in Durs : SetExpired(k, v, d)
    \/ \E k \in CKeys : GetExpired(k)
    \/ \E k \in CKeys : GetWithExpireStatus(k)
    \/ \E k \in CKeys : DeleteExpired(k)
    \/ ClearExpired

SpecExpired == InitExpired /\ [][NextExpired]_vars

\* ------------------------------------------------------------ RollingCache
\* NewRollingCache(length): items = make([]V, 0, length).  The capacity of the
\* slice only decides when append reallocates; the model keeps the elements.
InitRolling ==
    /\ NewGroup
    /\ NoSync
    /\ kind = "RollingCache"
    /\ items = <<>>
    /\ length \in 0..MaxLength
    /\ now = 0
    /\ log = <<>>
    /\ out = NoOut

\* Append: c.items = append(c.items, value)
RollingAppend(v) ==
    /\ kind = "RollingCache"
    /\ Len(log) < MaxRolling
    /\ items' = Append(items, v)
    /\ log' = Record("Append", NoKey, v)
    /\ out' = Returns(<<>>)
    /\ UNCHANGED <<kind, length, now>>
    /\ UNCHANGED <<groupVars, syncVars>>

\* Mutant of Rotate: at most `length` values are handed out.
RotateTruncating ==
    /\ kind = "RollingCache"
    /\ Len(log) < MaxRolling
    /\ items' = <<>>
    /\ log' = Record("Rotate", NoKey, NoArg)
    /\ out' = Returns(<<SubSeq(items, 1,
                               IF Len(items) < length THEN Len(items)
                               ELSE length)>>)
    /\ UNCHANGED <<kind, length, now>>
    /\ UNCHANGED <<groupVars, syncVars>>

\* Rotate: oldItems := c.items; c.items = make([]V, 0, c.length);
\* return oldItems
Rotate ==
    /\ kind = "RollingCache"
    /\ Len(log) < MaxRolling
    /\ items' = <<>>
    /\ log' = Record("Rotate", NoKey, NoArg)
    /\ out' = Returns(<<items>>)
    /\ UNCHANGED <<kind, length, now>>
    /\ UNCHANGED <<groupVars, syncVars>>

\* GetItems: a copy of c.items
RollingGetItems ==
    /\ kind = "RollingCache"
    /\ Len(log) < MaxRolling
    /\ log' = Record("GetItems", NoKey, NoArg)
    /\ out' = Returns(<<items>>)
    /\ UNCHANGED <<kind, items, length, now>>
    /\ UNCHANGED <<groupVars, syncVars>>

\* Size: return len(c.items)
RollingSize ==
    /\ kind = "RollingCache"
    /\ Len(log) < MaxRolling
    /\ log' = Record("Size", NoKey, NoArg)
    /\ out' = Returns(<<Len(items)>>)
    /\ UNCHANGED <<kind, items, length, now>>
    /\ UNCHANGED <<groupVars, syncVars>>

NextRolling ==
    \/ \E v \in Vals : RollingAppend(v)
    \/ Rotate
    \/ RollingGetItems
    \/ RollingSize

SpecRolling == InitRolling /\ [][NextRolling]_vars

\* --------------------------------------------------------- LockManager
\* Goroutines calling Lock, GetAndLock and Unlock of one LockManager
\* (part_004, lines 511-566).  getMutex reads lm.locks once without lm.mu
\* (line 528) and inserts under lm.mu (line 541); a map insertion is not
\* atomic, and a read that overlaps one is a data race.
LockOps == {"Lock", "GetAndLock", "Unlock"}
Acquires(op) == op \in {"Lock", "GetAndLock"}

lockFrame == <<groupVars, cacheVars, rw, g, lastSet, aliasVars>>

IdleWorker == [pc |-> "idle", op |-> "none", id |-> 0, lock |-> NoMutex,
               holds |-> {}, n |-> 0]

\* NewLockManager: an empty map of mutexes.
InitLock ==
    /\ NewGroup
    /\ NoCache
    /\ NoShared
    /\ NoAlias
    /\ lm = [mu |-> NoWorker, locks |-> [k \in LKeys |-> NoMutex],
             writing |-> NoWrite]
    /\ mtx = <<>>
    /\ lk = [p \in Workers |-> IdleWorker]
    /\ halt = "no"

\* A goroutine calls Lock(id) or GetAndLock(id), or Unlock(id) for a key it
\* has locked and not yet unlocked.
LockCall(p, op, id) ==
    /\ halt = "no"
    /\ lk[p].pc = "idle"
    /\ lk[p].n < MaxLockOps
    /\ IF Acquires(op) THEN id \notin lk[p].holds ELSE id \in lk[p].holds
    /\ lk' = [lk EXCEPT ![p] = [@ EXCEPT !.pc = "first", !.op = op, !.id = id,
                                         !.lock = NoMutex]]
    /\ UNCHANGED <<lm, mtx, halt>>
    /\ UNCHANGED lockFrame

\* Lines 528-530: `if lock, exists := lm.locks[id]; exists { return lock }`
\* without lm.mu.  While no insertion is in progress the read is exact.  A
\* read that overlaps an insertion is a race: the runtime throws "concurrent
\* map read and map write", or the read misses, or it finds a key that was
\* complete before, or it finds the key being inserted with its value not
\* yet stored (a nil *sync.Mutex).
getMutexFirstCheck(p) ==
    /\ halt = "no"
    /\ lk[p].pc = "first"
    /\ IF lm.writing = NoWrite
       THEN /\ lk' = [lk EXCEPT ![p] =
                        IF lm.locks[lk[p].id] # NoMutex
                        THEN [@ EXCEPT !.pc = "got", !.lock = lm.locks[lk[p].id]]
                        ELSE [@ EXCEPT !.pc = "lmlock"]]
            /\ halt' = halt
       ELSE \/ /\ halt' = "fatal"
               /\ lk' = lk
            \/ /\ lk' = [lk EXCEPT ![p].pc = "lmlock"]
               /\ halt' = halt
            \/ /\ lm.locks[lk[p].id] # NoMutex
               /\ lk' = [lk EXCEPT ![p] =
                           [@ EXCEPT !.pc = "got", !.lock = lm.locks[lk[p].id]]]
               /\ halt' = halt
            \/ /\ lm.writing = lk[p].id
               /\ lk' = [lk EXCEPT ![p] = [@ EXCEPT !.pc = "got", !.lock = NoMutex]]
               /\ halt' = halt
    /\ UNCHANGED <<lm, mtx>>
    /\ UNCHANGED lockFrame

\* Line 532: lm.mu.Lock()
getMutexLock(p) ==
    /\ halt = "no"
    /\ lk[p].pc = "lmlock"
    /\ lm.mu = NoWorker
    /\ lm' = [lm EXCEPT !.mu = p]
    /\ lk' = [lk EXCEPT ![p].pc = "second"]
    /\ UNCHANGED <<mtx, halt>>
    /\ UNCHANGED lockFrame

\* Lines 536-538: the second check, under lm.mu.
getMutexSecondCheck(p) ==
    /\ halt = "no"
    /\ lk[p].pc = "second"
    /\ lk' = [lk EXCEPT ![p] =
                IF lm.locks[lk[p].id] # NoMutex
                THEN [@ EXCEPT !.pc = "lmunlock", !.lock = lm.locks[lk[p].id]]
                ELSE [@ EXCEPT !.pc = "new"]]
    /\ UNCHANGED <<lm, mtx, halt>>
    /\ UNCHANGED lockFrame

\* Lines 540-541: lock := &sync.Mutex{}; the assignment lm.locks[id] = lock
\* starts (the key is entered, the value is not yet stored).
getMutexNew(p) ==
    /\ halt = "no"
    /\ lk[p].pc = "new"
    /\ mtx' = Append(mtx, FALSE)
    /\ lm' = [lm EXCEPT !.writing = lk[p].id]
    /\ lk' = [lk EXCEPT ![p] = [@ EXCEPT !.pc = "store", !.lock = Len(mtx) + 1]]
    /\ UNCHANGED halt
    /\ UNCHANGED lockFrame

\* Line 541: the assignment lm.locks[id] = lock is complete.
getMutexStore(p) ==
    /\ halt = "no"
    /\ lk[p].pc = "store"
    /\ lm' = [lm EXCEPT !.locks[lk[p].id] = lk[p].lock, !.writing = NoWrite]
    /\ lk' = [lk EXCEPT ![p].pc = "lmunlock"]
    /\ UNCHANGED <<mtx, halt>>
    /\ UNCHANGED lockFrame

\* Line 533: the deferred lm.mu.Unlock(); getMutex returns lock.
getMutexUnlock(p) ==
    /\ halt = "no"
    /\ lk[p].pc = "lmunlock"
    /\ lm' = [lm EXCEPT !.mu = NoWorker]
    /\ lk' = [lk EXCEPT ![p].pc = "got"]
    /\ UNCHANGED <<mtx, halt>>
    /\ UNCHANGED lockFrame

\* Lines 547 and 558-560: Lock() on the mutex getMutex returned; Lock and
\* GetAndLock return once it is acquired.  On a nil mutex it panics.
MutexLock(p) ==
    /\ halt = "no"
    /\ lk[p].pc = "got"
    /\ Acquires(lk[p].op)
    /\ IF lk[p].lock = NoMutex
       THEN /\ halt' = "panic"
            /\ UNCHANGED <<mtx, lk>>
       ELSE /\ ~mtx[lk[p].lock]
            /\ mtx' = [mtx EXCEPT ![lk[p].lock] = TRUE]
            /\ lk' = [lk EXCEPT ![p] = [@ EXCEPT !.pc = "idle",
                                                 !.holds = @ \cup {lk[p].id},
                                                 !.n = @ + 1]]
            /\ halt' = halt
    /\ UNCHANGED lm
    /\ UNCHANGED lockFrame

\* Line 565: Unlock() on the mutex getMutex returned.  On a nil mutex it
\* panics, on an unlocked one the runtime throws.
MutexUnlock(p) ==
    /\ halt = "no"
    /\ lk[p].pc = "got"
    /\ lk[p].op = "Unlock"
    /\ IF lk[p].lock = NoMutex
       THEN /\ halt' = "panic"
            /\ UNCHANGED <<mtx, lk>>
       ELSE IF ~mtx[lk[p].lock]
       THEN /\ halt' = "fatal"
            /\ UNCHANGED <<mtx, lk>>
       ELSE /\ mtx' = [mtx EXCEPT ![lk[p].lock] = FALSE]
            /\ lk' = [lk EXCEPT ![p] = [@ EXCEPT !.pc = "idle",
                                                 !.holds = @ \ {lk[p].id},
                                                 !.n = @ + 1]]
            /\ halt' = halt
    /\ UNCHANGED lm
    /\ UNCHANGED lockFrame

NextLock ==
    \/ \E p \in Workers, op \in LockOps, id \in LKeys : LockCall(p, op, id)
    \/ \E p \in Workers : getMutexFirstCheck(p)
    \/ \E p \in Workers : getMutexLock(p)
    \/ \E p \in Workers : getMutexSecondCheck(p)
    \/ \E p \in Workers : getMutexNew(p)
    \/ \E p \in Workers : getMutexStore(p)
    \/ \E p \in Workers : getMutexUnlock(p)
    \/ \E p \in Workers : MutexLock(p)
    \/ \E p \in Workers : MutexUnlock(p)

SpecLock == InitLock /\ [][NextLock]_vars

\* --------------------------------------------------- caches under goroutines
\* Goroutines calling the methods of one WriteHeavyCache or ReadHeavyCache
\* (part_004, lines 22-132), a statement at a time: lock, body, unlock.  An
\* assignment to a map is not atomic: it loads the table and stores the
\* updated one.
SharedOps == {"Set", "Get", "Delete", "Clear", "SetItems", "Size"}
Writes(op) == op \in {"Set", "Delete", "Clear", "SetItems"}

\* Get and Size of ReadHeavyCache take RLock; every other method, and every
\* method of WriteHeavyCache, takes Lock.
TakesRLock(op) ==
    /\ kind \in {"ReadHeavyCache", "ReadHeavyCacheInteger"}
    /\ op \in {"Get", "Size"}

sharedFrame == <<groupVars, lm, mtx, lk, halt, kind, length, now, out,
                 aliasVars>>

IdleCaller == [pc |-> "idle", op |-> "none", key |-> NoKey, arg |-> NoArg,
               tmp |-> EmptyMap, out |-> <<>>, n |-> 0]

\* NewWriteHeavyCache / NewReadHeavyCache, shared by the goroutines.
InitConcurrent ==
    /\ NewGroup
    /\ NoLockManager
    /\ NoAlias
    /\ kind \in PlainKinds
    /\ items = EmptyMap
    /\ length = 0
    /\ now = 0
    /\ log = <<>>
    /\ out = NoOut
    /\ rw = [w |-> NoWorker, r |-> {}]
    /\ g = [p \in Workers |-> IdleCaller]
    /\ lastSet = EmptyMap

\* A goroutine calls a method.
SharedCall(p, op, k, a) ==
    /\ g[p].pc = "idle"
    /\ g[p].n < MaxCacheOps
    /\ g' = [g EXCEPT ![p] = [@ EXCEPT !.pc = "lock", !.op = op, !.key = k,
                                       !.arg = a, !.out = <<>>]]
    /\ UNCHANGED <<items, rw, lastSet>>
    /\ UNCHANGED log
    /\ UNCHANGED sharedFrame

\* Mutant of SharedLock: the lock is taken without waiting for it.
SharedLockNoWait(p) ==
    /\ g[p].pc = "lock"
    /\ rw' = IF TakesRLock(g[p].op)
             THEN [rw EXCEPT !.r = @ \cup {p}]
             ELSE [rw EXCEPT !.w = p]
    /\ g' = [g EXCEPT ![p].pc = "body"]
    /\ UNCHANGED <<items, lastSet>>
    /\ UNCHANGED log
    /\ UNCHANGED sharedFrame

\* c.Lock() / c.RLock(): a reader waits for the writer, a writer for the
\* writer and for every reader.
SharedLock(p) ==
    /\ g[p].pc = "lock"
    /\ rw.w = NoWorker
    /\ IF TakesRLock(g[p].op)
       THEN rw' = [rw EXCEPT !.r = @ \cup {p}]
       ELSE /\ rw.r = {}
            /\ rw' = [rw EXCEPT !.w = p]
    /\ g' = [g EXCEPT ![p].pc = "body"]
    /\ UNCHANGED <<items, lastSet>>
    /\ UNCHANGED log
    /\ UNCHANGED sharedFrame

\* The statement under the lock: Get and Size read c.items; the others load
\* it for their assignment.
SharedBody(p) ==
    /\ g[p].pc = "body"
    /\ g' = [g EXCEPT ![p] =
               CASE g[p].op = "Get" ->
                      [@ EXCEPT !.pc = "unlock", !.out = Lookup(items, g[p].key)]
                 [] g[p].op = "Size" ->
                      [@ EXCEPT !.pc = "unlock", !.out = <<Cardinality(DOMAIN items)>>]
                 [] OTHER ->
                      [@ EXCEPT !.pc = "store", !.tmp = items]]
    /\ UNCHANGED <<items, rw, lastSet>>
    /\ UNCHANGED log
    /\ UNCHANGED sharedFrame

\* c.items[key] = value; delete(c.items, key); c.items = make(map[K]V);
\* c.items = items; Incr: c.items[key] = v + value, or value when not found.
\* RollingCache: c.items = append(c.items, value); Rotate: oldItems is what
\* was loaded, c.items = make([]V, 0, c.length).  The history records an
\* Append and a Rotate, with the slice it will return, when it takes effect.
SharedStore(p) ==
    /\ g[p].pc = "store"
    /\ items' = CASE g[p].op = "Set" -> Put(g[p].tmp, g[p].key, g[p].arg)
                  [] g[p].op = "Delete" -> Del(g[p].tmp, g[p].key)
                  [] g[p].op = "Clear" -> EmptyMap
                  [] g[p].op = "SetItems" -> g[p].arg
                  [] g[p].op = "Incr" ->
                       Put(g[p].tmp, g[p].key,
                           IF Has(g[p].tmp, g[p].key)
                           THEN Wrap(g[p].tmp[g[p].key] + g[p].arg)
                           ELSE g[p].arg)
                  [] g[p].op = "Append" -> Append(g[p].tmp, g[p].arg)
                  [] g[p].op = "Rotate" -> <<>>
    /\ g' = [g EXCEPT ![p] =
               [@ EXCEPT !.pc = "unlock", !.tmp = EmptyMap,
                         !.out = IF g[p].op = "Rotate" THEN <<g[p].tmp>> ELSE @]]
    /\ log' = CASE g[p].op = "Append" -> Record("Append", NoKey, g[p].arg)
                 [] g[p].op = "Rotate" -> Record("Rotate", NoKey, g[p].tmp)
                 [] OTHER -> log
    /\ UNCHANGED <<rw, lastSet>>
    /\ UNCHANGED sharedFrame

\* c.Unlock() / c.RUnlock(), and the method returns.  The history records
\* the Incr calls that have returned.
SharedUnlock(p) ==
    /\ g[p].pc = "unlock"
    /\ rw' = IF TakesRLock(g[p].op)
             THEN [rw EXCEPT !.r = @ \ {p}]
             ELSE [rw EXCEPT !.w = NoWorker]
    /\ g' = [g EXCEPT ![p] = [@ EXCEPT !.pc = "idle", !.n = @ + 1]]
    /\ lastSet' = IF g[p].op = "Set" THEN Put(lastSet, g[p].key, g[p].arg)
                  ELSE lastSet
    /\ UNCHANGED items
    /\ log' = IF g[p].op = "Incr" THEN Record("Incr", g[p].key, g[p].arg)
               ELSE log
    /\ UNCHANGED sharedFrame

NextConcurrent ==
    \/ \E p \in Workers, k \in CKeys, v \in Vals : SharedCall(p, "Set", k, v)
    \/ \E p \in Workers, k \in CKeys : SharedCall(p, "Get", k, NoArg)
    \/ \E p \in Workers, k \in CKeys : SharedCall(p, "Delete", k, NoArg)
    \/ \E p \in Workers : SharedCall(p, "Clear", NoKey, NoArg)
    \/ \E p \in Workers, mp \in Maps : SharedCall(p, "SetItems", NoKey, mp)
    \/ \E p \in Workers : SharedCall(p, "Size", NoKey, NoArg)
    \/ \E p \in Workers : SharedLock(p)
    \/ \E p \in Workers : SharedBody(p)
    \/ \E p \in Workers : SharedStore(p)
    \/ \E p \in Workers : SharedUnlock(p)

SpecConcurrent == InitConcurrent /\ [][NextConcurrent]_vars

\* The parallel-write tests: goroutine i calls Set on its own key only.
KeysOf(p) == IF p = 1 THEN {"a"} ELSE IF p = 2 THEN {"b"} ELSE {}

NextParallelWrite ==
    \/ \E p \in Workers : \E k \in KeysOf(p), v \in Vals :
          SharedCall(p, "Set", k, v)
    \/ \E p \in Workers : SharedLock(p)
    \/ \E p \in Workers : SharedBody(p)
    \/ \E p \in Workers : SharedStore(p)
    \/ \E p \in Workers : SharedUnlock(p)

SpecParallelWrite == InitConcurrent /\ [][NextParallelWrite]_vars

\* Goroutines calling Incr of one WriteHeavyCacheInteger or
\* ReadHeavyCacheInteger that may already hold a value; out.pre keeps the
\* contents before the calls.
InitIncr ==
    /\ NewGroup
    /\ NoLockManager
    /\ NoAlias
    /\ kind \in IntegerKinds
    /\ items \in {EmptyMap, Put(EmptyMap, "a", 1)}
    /\ length = 0
    /\ now = 0
    /\ log = <<>>
    /\ out = [r |-> <<>>, pre |-> items]
    /\ rw = [w |-> NoWorker, r |-> {}]
    /\ g = [p \in Workers |-> IdleCaller]
    /\ lastSet = EmptyMap

NextIncr ==
    \/ \E p \in Workers, k \in CKeys, v \in Vals : SharedCall(p, "Incr", k, v)
    \/ \E p \in Workers : SharedLock(p)
    \/ \E p \in Workers : SharedBody(p)
    \/ \E p \in Workers : SharedStore(p)
    \/ \E p \in Workers : SharedUnlock(p)

SpecIncr == InitIncr /\ [][NextIncr]_vars

\* Goroutines calling Append and Rotate of one RollingCache (part_004, lines
\* 470-488); the k-th Append of goroutine p appends the value 10 * p + k.
InitRollingShared ==
    /\ NewGroup
    /\ NoLockManager
    /\ NoAlias
    /\ kind = "RollingCache"
    /\ items = <<>>
    /\ length \in 0..MaxLength
    /\ now = 0
    /\ log = <<>>
    /\ out = NoOut
    /\ rw = [w |-> NoWorker, r |-> {}]
    /\ g = [p \in Workers |-> IdleCaller]
    /\ lastSet = EmptyMap

NextRollingShared ==
    \/ \E p \in Workers : SharedCall(p, "Append", NoKey, 10 * p + g[p].n)
    \/ \E p \in Workers : SharedCall(p, "Rotate", NoKey, NoArg)
    \/ \E p \in Workers : SharedLock(p)
    \/ \E p \in Workers : SharedBody(p)
    \/ \E p \in Workers : SharedStore(p)
    \/ \E p \in Workers : SharedUnlock(p)

SpecRollingShared == InitRollingShared /\ [][NextRollingShared]_vars

\* ------------------------------------------------- maps held by reference
\* A Go map value is a reference, and so is a slice's backing array.  Here
\* c.items is a reference into a heap of maps, so that what a caller holds
\* after GetItems can be told from what the cache holds (part_004, lines
\* 44-69, 100-125, 352-377, 420-445 and 490-499).  The methods are single
\* steps as in the sequential model.
CallerMaps == {EmptyMap, Put(EmptyMap, "b", 1)}
refFrame == <<groupVars, lm, mtx, lk, halt, rw, g, lastSet,
              kind, items, length, now, out>>

\* A new cache: c.items refers to a fresh empty map (slice).
InitRef ==
    /\ NewGroup
    /\ NoLockManager
    /\ NoShared
    /\ kind \in MapKinds \cup {"RollingCache"}
    /\ items = IF kind = "RollingCache" THEN <<>> ELSE EmptyMap
    /\ length = 0
    /\ now = 0
    /\ log = <<>>
    /\ out = NoOut
    /\ heap = <<items>>
    /\ itemsRef = 1
    /\ held = NoRef

\* Set: c.items[key] = value writes into the map c.items refers to.
RefSet(k, v) ==
    /\ kind \in MapKinds
    /\ Len(log) < MaxRefOps
    /\ heap' = [heap EXCEPT ![itemsRef] = Put(@, k, v)]
    /\ log' = Record("Set", k, v)
    /\ UNCHANGED <<itemsRef, held>>
    /\ UNCHANGED refFrame

\* Delete: delete(c.items, key)
RefDelete(k) ==
    /\ kind \in MapKinds
    /\ Len(log) < MaxRefOps
    /\ heap' = [heap EXCEPT ![itemsRef] = Del(@, k)]
    /\ log' = Record("Delete", k, NoArg)
    /\ UNCHANGED <<itemsRef, held>>
    /\ UNCHANGED refFrame

\* Clear: c.items = make(map[K]V), a new map.
RefClear ==
    /\ kind \in MapKinds
    /\ Len(log) < MaxRefOps
    /\ heap' = Append(heap, EmptyMap)
    /\ itemsRef' = Len(heap) + 1
    /\ log' = Record("Clear", NoKey, NoArg)
    /\ UNCHANGED held
    /\ UNCHANGED refFrame

\* SetItems: c.items = items, the map the caller built.
RefSetItems(mp) ==
    /\ kind \in MapKinds
    /\ Len(log) < MaxRefOps
    /\ heap' = Append(heap, mp)
    /\ itemsRef' = Len(heap) + 1
    /\ log' = Record("SetItems", NoKey, mp)
    /\ UNCHANGED held
    /\ UNCHANGED refFrame

\* Mutant of RefGetItems: the map caches return a copy as well.
RefGetItemsCopy ==
    /\ Len(log) < MaxRefOps
    /\ heap' = Append(heap, heap[itemsRef])
    /\ held' = Len(heap) + 1
    /\ log' = Record("GetItems", NoKey, NoArg)
    /\ UNCHANGED itemsRef
    /\ UNCHANGED refFrame

\* GetItems: the map caches `return c.items`; RollingCache returns
\* copiedItems, a new slice with the elements copied.
RefGetItems ==
    /\ Len(log) < MaxRefOps
    /\ IF kind = "RollingCache"
       THEN /\ heap' = Append(heap, heap[itemsRef])
            /\ held' = Len(heap) + 1
       ELSE /\ heap' = heap
            /\ held' = itemsRef
    /\ log' = Record("GetItems", NoKey, NoArg)
    /\ UNCHANGED itemsRef
    /\ UNCHANGED refFrame

\* RollingCache.Append: c.items = append(c.items, value)
RefAppend(v) ==
    /\ kind = "RollingCache"
    /\ Len(log) < MaxRefOps
    /\ heap' = [heap EXCEPT ![itemsRef] = Append(@, v)]
    /\ log' = Record("Append", NoKey, v)
    /\ UNCHANGED <<itemsRef, held>>
    /\ UNCHANGED refFrame

\* RollingCache.Rotate: c.items = make([]V, 0, c.length), a new slice.
RefRotate ==
    /\ kind = "RollingCache"
    /\ Len(log) < MaxRefOps
    /\ heap' = Append(heap, <<>>)
    /\ itemsRef' = Len(heap) + 1
    /\ log' = Record("Rotate", NoKey, NoArg)
    /\ UNCHANGED held
    /\ UNCHANGED refFrame

\* The caller writes through what GetItems returned: items[k] = v on a map,
\* items = append(items, v) or items[i] = v on a slice.
CallerWrite(k, v) ==
    /\ held # NoRef
    /\ Len(log) < MaxRefOps
    /\ heap' = [heap EXCEPT ![held] =
                  IF kind = "RollingCache"
                  THEN IF @ = <<>> THEN <<v>> ELSE [@ EXCEPT ![1] = v]
                  ELSE Put(@, k, v)]
    /\ log' = Record("CallerWrite", k, v)
    /\ UNCHANGED <<itemsRef, held>>
    /\ UNCHANGED refFrame

NextRef ==
    \/ \E k \in CKeys, v \in Vals : RefSet(k, v)
    \/ \E k \in CKeys : RefDelete(k)
    \/ RefClear
    \/ \E mp \in CallerMaps : RefSetItems(mp)
    \/ RefGetItems
    \/ \E v \in Vals : RefAppend(v)
    \/ RefRotate
    \/ \E k \in CKeys, v \in Vals : CallerWrite(k, v)

SpecRef == InitRef /\ [][NextRef]_vars

\* ------------------------------------------------------------ vocabulary
\* The producer invocations made so far (the tests' `calls` counter).
Invocations == {<<i, j>> \in CallIds \X (1..MaxCalls) : j <= Len(ran[i])}
TotalInvocations == Cardinality(Invocations)

Returned(p) == pc[p] = "returned"
AllReturned == \A p \in Gs : Returned(p)
InFn(p) == pc[p] = "fn"

\* ------------------------------------------------------------ C1
\* C1 as stated: N callers, one key, a producer released only once all N
\* callers have entered Do: the producer is invoked exactly once and every
\* caller receives the pair of that invocation.
C1_AsStated ==
    (gate = "open" /\ AllReturned) =>
        /\ TotalInvocations = 1
        /\ \A p \in Gs : ret[p] = FnResult(fn[p])

\* C1 amended: when the producer is released only once all N callers have
\* obtained their call from the registry, the producer is invoked exactly once
\* and every caller receives the pair of that invocation.
C1_DupSuppress ==
    (gate = "open" /\ attachedAtRelease /\ AllReturned) =>
        /\ TotalInvocations = 1
        /\ \A p \in Gs : ret[p] = FnResult(fn[p])
        /\ \A p, q \in Gs : ret[p] = ret[q] /\ c[p] = c[q]

C1_Witness == gate = "open" /\ attachedAtRelease /\ AllReturned

C2_OneAtATime ==
    \A k \in Keys : Cardinality({p \in Gs : InFn(p) /\ key[p] = k}) <= 1

\* ------------------------------------------------------------ C3
\* C3: all callers that obtained the same call return one and the same pair,
\* the pair of the single producer invocation made on that call.
C3_SamePair ==
    /\ \A i \in CallIds :
          delivered[i] # {} =>
              /\ Len(ran[i]) = 1
              /\ delivered[i] = {FnResult(ran[i][1])}
    /\ \A p, q \in Gs :
          (Returned(p) /\ Returned(q) /\ c[p] = c[q]) => ret[p] = ret[q]

C3_Witness ==
    \E p, q \in Gs :
        /\ p # q /\ Returned(p) /\ Returned(q) /\ c[p] = c[q]
        /\ fn[p] # fn[q]

\* ------------------------------------------------------------ C4
\* C4 as stated: when the producer returns an error E, every caller of that
\* call receives E and the zero value.
C4_AsStated ==
    \A i \in CallIds :
        (Len(ran[i]) >= 1 /\ FnResult(ran[i][1])[2] # Nil) =>
            delivered[i] \subseteq {<<Zero, FnResult(ran[i][1])[2]>>}

\* C4 amended: when the producer returns an error E, every caller of that call
\* receives E itself, together with the value the producer returned with it
\* (the zero value when that is what the producer returned).
C4_ErrVerbatim ==
    \A i \in CallIds :
        (Len(ran[i]) >= 1 /\ FnResult(ran[i][1])[2] # Nil) =>
            /\ delivered[i] \subseteq {FnResult(ran[i][1])}
            /\ \A p \in Gs :
                  (Returned(p) /\ c[p] = i) =>
                      /\ ret[p][2] = FnResult(ran[i][1])[2]
                      /\ ret[p][1] = FnResult(ran[i][1])[1]
                      /\ (ran[i][1] = "fErr" => ret[p][1] = Zero)

C4_Witness ==
    \E p, q \in Gs :
        /\ p # q /\ Returned(p) /\ Returned(q) /\ c[p] = c[q]
        /\ ret[p] = <<Zero, "someErr">> /\ shared[p]

\* ------------------------------------------------------------ C6
\* C6: a goroutine running its producer holds the lock of its own call and no
\* other lock, in particular not the registry lock; a goroutine waiting for a
\* call's lock waits only for a goroutine working on the same key.
C6_DistinctKeys ==
    /\ \A p \in Gs :
          InFn(p) =>
              /\ mu # <<"do", p>>
              /\ \A i \in CallIds : call[i].mu = p <=> i = c[p]
    /\ \A q \in Gs :
          (pc[q] = "clock" /\ call[c[q]].mu # 0) =>
              key[call[c[q]].mu] = key[q]
    /\ \A q \in Gs, r \in Gs :
          (pc[q] = "lock" /\ mu = <<"do", r>>) => ~InFn(r)

\* Two producers for different keys in progress at once.
C6_Witness ==
    \E p, q \in Gs : InFn(p) /\ InFn(q) /\ key[p] # key[q]

\* ------------------------------------------------------------ C7
Retired == Allocated \ live

\* C7: a Do that finds its key absent gets a call that no producer has run on,
\* registers it, and returns the pair of the one producer run made on it
\* afterwards, not that of a retired call.
C7_FreshAfterRetire ==
    \A p \in Gs :
        (Attached(p) /\ ~ok[p]) =>
            /\ callKey[c[p]] = key[p]
            /\ pc[p] = "unlock" =>
                  /\ ~call[c[p]].done
                  /\ ran[c[p]] = <<>>
                  /\ delivered[c[p]] = {}
                  /\ m[key[p]] = c[p]
                  /\ c[p] \notin Retired
            /\ Returned(p) =>
                  /\ Len(ran[c[p]]) = 1
                  /\ ret[p] = FnResult(ran[c[p]][1])

\* A Do that found the key absent after an earlier call for it was retired.
C7_Witness ==
    \E p \in Gs :
        /\ Returned(p) /\ ~ok[p]
        /\ \E i \in Retired : i # c[p] /\ callKey[i] = key[p] /\ call[i].done
        /\ \E i \in Retired : callKey[i] = key[p] /\ ran[i] # ran[c[p]]

\* ------------------------------------------------------------ C8
\* The second or later of a goroutine's Do calls, with the key of the one before.
SecondCall(p) == Returned(p) /\ nDo[p] >= 2 /\ prevKey[p] = key[p]

\* C8 as stated: the second of two sequential Do calls with one key invokes
\* its producer.
C8_AsStated ==
    \A p \in Gs : SecondCall(p) => ~shared[p]

\* No other goroutine has used the group.
Solo(p) == \A q \in Gs \ {p} : pc[q] = "idle" /\ nDo[q] = 0

\* C8 amended: with no other caller, the second Do invokes its producer exactly
\* when its lookup finds the key absent (the first call's removal has run);
\* otherwise it returns the pair of the call it found without invoking it.
C8_Sequential ==
    \A p \in Gs :
        (SecondCall(p) /\ Solo(p)) =>
            /\ ~shared[p] <=> ~ok[p]
            /\ ~shared[p] => ret[p] = FnResult(fn[p])
            /\ shared[p] => ret[p] = FnResult(ran[c[p]][1])

C8_Witness ==
    \E p \in Gs : SecondCall(p) /\ Solo(p) /\ ~shared[p]

\* ------------------------------------------------------------ C9
\* C9: the call a Do obtains is the one registered for its key at that moment,
\* found or newly created, and the pair every Do returns is the whole outcome
\* of the single producer invocation made on that call, for that Do's key.
C9_ConsistentCall ==
    \A p \in Gs :
        /\ pc[p] = "unlock" => c[p] = m[key[p]]
        /\ Attached(p) => callKey[c[p]] = key[p]
        /\ Returned(p) =>
              /\ call[c[p]].done
              /\ Len(ran[c[p]]) = 1
              /\ ret[p] = FnResult(ran[c[p]][1])
              /\ ret[p] = <<call[c[p]].value, call[c[p]].err>>

\* A Do that attached to a call found in the registry, now retired, and
\* returned its pair while another Do for the key is on a newer call.
C9_Witness ==
    \E p, q \in Gs :
        /\ Returned(p) /\ ok[p] /\ shared[p] /\ c[p] \in Retired
        /\ q # p /\ Attached(q) /\ key[q] = key[p] /\ c[q] # c[p]

\* ------------------------------------------------------------ C10
LiveFor(k) == {i \in live : callKey[i] = k}

\* C10: at most one call per key is live (inserted and not yet removed), and
\* it is the one the mapping holds for the key.
C10_OneLivePerKey ==
    \A k \in Keys :
        /\ Cardinality(LiveFor(k)) <= 1
        /\ LiveFor(k) = IF m[k] = NoCall THEN {} ELSE {m[k]}

\* A key with a live call and an earlier, retired one.
C10_Witness ==
    \E k \in Keys :
        /\ LiveFor(k) # {}
        /\ \E i \in Retired : callKey[i] = k

\* ------------------------------------------------------------ C11
InDo(p) == pc[p] \notin {"idle", "returned"}

\* C11: with producers that return and fair scheduling, every Do call that
\* has been made eventually returns.
C11_Terminates ==
    \A p \in Callers : InDo(p) ~> Returned(p)

\* A Do that found the call of another goroutine, waited for it and returned.
C11_Witness ==
    \E p \in Gs : Returned(p) /\ ok[p] /\ shared[p]

\* ------------------------------------------------------------ C12
\* C12: under fair scheduling, every call whose producer has completed is
\* eventually removed from the registry.
C12_EventuallyRemoved ==
    \A i \in CallIds : call[i].done ~> (i \notin live)

\* A completed call that has been removed from the registry.
C12_Witness ==
    \E i \in Allocated : call[i].done /\ i \notin live

\* ------------------------------------------------------------ C13
\* The Do calls made so far, returned or still running.
DoCalls ==
    {<<p, j>> \in Gs \X (1..MaxDo) : j <= nDo[p]}
        \cup {<<p, 0>> : p \in {q \in Gs : InDo(q)}}

\* C13: the producer is never invoked twice on one call, there are never more
\* invocations than Do calls, and the error of a completed call reaches every
\* caller attached to it as the outcome of that one invocation.
C13_NoRetry ==
    /\ \A i \in CallIds : Len(ran[i]) <= 1
    /\ TotalInvocations <= Cardinality(DoCalls)
    /\ \A p \in Gs :
          (Returned(p) /\ call[c[p]].err # Nil) =>
              /\ Len(ran[c[p]]) = 1
              /\ ret[p] = FnResult(ran[c[p]][1])
              /\ ret[p][2] = call[c[p]].err

\* Two callers hold the error of one call, whose producer ran once.
C13_Witness ==
    \E p, q \in Gs :
        /\ p # q /\ c[p] = c[q]
        /\ Returned(p) /\ Returned(q)
        /\ ret[p][2] # Nil /\ ret[q][2] # Nil
        /\ Len(ran[c[p]]) = 1

\* ------------------------------------------------------------ C14
\* The callers of call i that have not returned yet.
Pending(i) == {p \in Gs : c[p] = i /\ InDo(p)}
Unshared(i) == {j \in 1..Len(flags[i]) : ~flags[i][j]}

\* C14: a Do returns shared = false exactly when it invoked the producer
\* itself; of the callers of one call at most one gets false, and exactly one
\* once all of them have returned.
C14_SharedFlag ==
    /\ \A p \in Gs : Returned(p) => (ret[p][3] <=> shared[p])
    /\ \A i \in CallIds :
          /\ Cardinality(Unshared(i)) <= 1
          /\ (flags[i] # <<>> /\ Pending(i) = {}) =>
                Cardinality(Unshared(i)) = 1

\* A call whose callers have all returned, one of them with shared = true.
C14_Witness ==
    \E i \in CallIds :
        /\ Pending(i) = {}
        /\ \E j \in 1..Len(flags[i]) : flags[i][j]

\* ------------------------------------------------------------ C15
\* The reference map: what Get(k) returns after history h, namely the value of
\* the latest Set(k, v) not followed by Delete(k) or Clear.
RECURSIVE RefGet(_, _)
RefGet(h, k) ==
    IF Len(h) = 0 THEN <<ZeroV, FALSE>>
    ELSE LET e == h[Len(h)]
         IN IF e.op = "Set" /\ e.key = k THEN <<e.arg, TRUE>>
            ELSE IF (e.op = "Delete" /\ e.key = k) \/ e.op = "Clear"
                 THEN <<ZeroV, FALSE>>
                 ELSE RefGet(SubSeq(h, 1, Len(h) - 1), k)

BasicOps == {"Set", "Get", "Delete", "Clear", "Size"}
BasicHistory == \A j \in 1..Len(log) : log[j].op \in BasicOps

\* C15: after any sequence of Set, Delete, Clear, Get and Size on a
\* WriteHeavyCache or ReadHeavyCache, Get(k) returns what the reference map
\* gives for k, and Size() the number of keys the reference map holds.
C15_ReferenceMap ==
    (kind \in PlainKinds /\ Len(log) > 0 /\ BasicHistory) =>
        /\ \A k \in CKeys : Lookup(items, k) = RefGet(log, k)
        /\ Last.op = "Get" => out.r = RefGet(log, Last.key)
        /\ Last.op = "Size" =>
              out.r = <<Cardinality({k \in CKeys : RefGet(log, k)[2]})>>

\* Set(k, v), Delete(k), Get(k): the key is not found.
C15_Witness ==
    /\ kind \in PlainKinds /\ Len(log) = 3
    /\ log[1].op = "Set" /\ log[2].op = "Delete" /\ log[3].op = "Get"
    /\ log[2].key = log[1].key /\ log[3].key = log[1].key
    /\ out.r = <<ZeroV, FALSE>>

\* ------------------------------------------------------------ C16
IncrDone == kind \in IntegerKinds /\ Len(log) > 0 /\ Last.op = "Incr"

\* C16 as stated: Incr(key, d) sets the key to d when it does not exist and to
\* the sum of the old value and d otherwise; other keys are unchanged.
C16_AsStated ==
    IncrDone =>
        items = Put(out.pre, Last.key,
                    IF Has(out.pre, Last.key)
                    THEN out.pre[Last.key] + Last.arg
                    ELSE Last.arg)

\* C16 amended: Incr(key, d) sets the key to d when it does not exist and
\* otherwise to the sum of the old value and d wrapped into the range of V;
\* other keys are unchanged.
C16_IncrWraps ==
    IncrDone =>
        items = Put(out.pre, Last.key,
                    IF Has(out.pre, Last.key)
                    THEN Wrap(out.pre[Last.key] + Last.arg)
                    ELSE Last.arg)

\* An Incr whose sum is beyond the largest V, with another key present.
C16_Witness ==
    /\ IncrDone
    /\ Has(out.pre, Last.key)
    /\ out.pre[Last.key] + Last.arg > MaxV
    /\ DOMAIN out.pre # {Last.key}

\* ------------------------------------------------------------ C17
NoEntry == [found |-> FALSE, value |-> ZeroV, expire |-> 0]

\* The entry of k after history h: value and expiry (time of Set + duration)
\* of the latest Set of k not followed by Delete(k) or Clear.
RECURSIVE RefEntry(_, _)
RefEntry(h, k) ==
    IF Len(h) = 0 THEN NoEntry
    ELSE LET e == h[Len(h)]
         IN IF e.op = "Set" /\ e.key = k
            THEN [found |-> TRUE, value |-> e.arg[1],
                  expire |-> e.at + e.arg[2]]
            ELSE IF (e.op = "Delete" /\ e.key = k) \/ e.op = "Clear"
                 THEN NoEntry
                 ELSE RefEntry(SubSeq(h, 1, Len(h) - 1), k)

ExpiredOp(op) == kind \in ExpiredKinds /\ Len(log) > 0 /\ Last.op = op

\* C17: Get of an Expired cache returns (value, true) exactly when the key has
\* an entry and the time of the Get is not after its expiry, and (zero, false)
\* otherwise.
C17_ExpiredGet ==
    ExpiredOp("Get") =>
        LET e == RefEntry(Before, Last.key)
        IN out.r = IF e.found /\ ~(Last.at > e.expire)
                   THEN <<e.value, TRUE>>
                   ELSE <<ZeroV, FALSE>>

\* A Get exactly at the expiry instant of its entry, which is found.
C17_Witness ==
    /\ ExpiredOp("Get")
    /\ RefEntry(Before, Last.key).found
    /\ Last.at = RefEntry(Before, Last.key).expire
    /\ out.r[2]

\* ------------------------------------------------------------ C18
\* C18: GetWithExpireStatus returns (zero, false, false) without an entry and
\* otherwise (value, true, expired), expired exactly when the time of the call
\* is after the expiry; neither it nor Get changes the entries.
C18_ExpireStatus ==
    /\ ExpiredOp("GetWithExpireStatus") =>
          LET e == RefEntry(Before, Last.key)
          IN out.r = IF ~e.found THEN <<ZeroV, FALSE, FALSE>>
                     ELSE <<e.value, TRUE, Last.at > e.expire>>
    /\ (ExpiredOp("Get") \/ ExpiredOp("GetWithExpireStatus")) =>
          items = out.pre

\* After expiry a Get reported not found, and GetWithExpireStatus then
\* returns the stored value with expired = true.
C18_Witness ==
    /\ ExpiredOp("GetWithExpireStatus")
    /\ Len(log) >= 3
    /\ Before[Len(Before)].op = "Get"
    /\ Before[Len(Before)].key = Last.key
    /\ out.r[2] /\ out.r[3]
    /\ out.r[1] \in Vals

\* ------------------------------------------------------------ C19
\* The values appended since creation or since the last Rotate, in order.
RECURSIVE Appended(_)
Appended(h) ==
    IF Len(h) = 0 THEN <<>>
    ELSE LET e == h[Len(h)]
             front == SubSeq(h, 1, Len(h) - 1)
         IN IF e.op = "Rotate" THEN <<>>
            ELSE IF e.op = "Append" THEN Append(Appended(front), e.arg)
                 ELSE Appended(front)

RollingOp(op) == kind = "RollingCache" /\ Len(log) > 0 /\ Last.op = op

\* C19: Rotate returns the values appended since creation or the previous
\* Rotate, in order, and leaves the cache empty; Size and GetItems report
\* exactly those values, however many were appended.
C19_Rotate ==
    /\ RollingOp("Rotate") =>
          /\ out.r = <<Appended(Before)>>
          /\ items = <<>>
          /\ Appended(log) = <<>>
    /\ RollingOp("Size") => out.r = <<Len(Appended(Before))>>
    /\ RollingOp("GetItems") => out.r = <<Appended(Before)>>

\* A second Rotate that returns more values than the initial length.
C19_Witness ==
    /\ RollingOp("Rotate")
    /\ \E j \in 1..Len(Before) : Before[j].op = "Rotate"
    /\ Len(out.r[1]) > length
    /\ Len(out.r[1]) > 0

\* ------------------------------------------------------------ C20
\* C20: right after SetItems(m) the cache holds exactly the entries of m: Get
\* finds the keys of m with the values of m and no other key, and Size is the
\* number of keys of m.
C20_SetItemsReplaces ==
    (kind \in MapKinds /\ Len(log) > 0) =>
        /\ Last.op = "SetItems" =>
              /\ \A k \in CKeys : Lookup(items, k) = Lookup(Last.arg, k)
              /\ Cardinality(DOMAIN items) = Cardinality(DOMAIN Last.arg)
        /\ (Len(log) > 1 /\ Before[Len(Before)].op = "SetItems") =>
              /\ Last.op = "Get" =>
                    out.r = Lookup(Before[Len(Before)].arg, Last.key)
              /\ Last.op = "Size" =>
                    out.r = <<Cardinality(DOMAIN Before[Len(Before)].arg)>>

\* SetItems with a non-empty map that lacks a key the cache had, and a Get of
\* that key afterwards.
C20_Witness ==
    /\ kind \in MapKinds /\ Len(log) = 3
    /\ log[2].op = "SetItems" /\ log[3].op = "Get"
    /\ DOMAIN log[2].arg # {}
    /\ log[1].op = "Set" /\ log[1].key = log[3].key
    /\ log[3].key \notin DOMAIN log[2].arg
    /\ out.r = <<ZeroV, FALSE>>

\* ------------------------------------------------------------ C24
\* C24: a call is removed from the registry only after its completion flag is
\* set: every call that was inserted and is no longer in the mapping is done.
C24_Lifecycle ==
    \A i \in Retired : call[i].done

\* ------------------------------------------------------------ C25
\* The goroutines that are invoking the producer of call i or have just
\* stored its result.
Writers(i) == {p \in Gs : c[p] = i /\ pc[p] \in {"fn", "setdone"}}
Result(i) == <<call[i].value, call[i].err>>

\* C25: value and error of a call are written once, by the one caller that
\* holds the call's lock, before done is set; done never goes back to false
\* and after it the value and error never change.
C25_WrittenOnce ==
    /\ [](\A i \in CallIds :
            /\ Cardinality(Writers(i)) <= 1
            /\ \A p \in Writers(i) : call[i].mu = p /\ ~call[i].done)
    /\ [][\A i \in CallIds :
            /\ call[i].done => call'[i].done /\ Result(i)' = Result(i)
            /\ Result(i)' # Result(i) =>
                  /\ Result(i) = <<Zero, Nil>>
                  /\ \E p \in Writers(i) : pc[p] = "fn" /\ pc'[p] = "setdone"]_vars
    /\ [][\A p \in Gs : (pc[p] = "fn" /\ pc'[p] = "setdone") =>
                            Result(c[p]) = <<Zero, Nil>>]_vars

\* A completed call with a value and an error, read by a second caller.
C25_Witness ==
    \E p \in Gs :
        /\ Returned(p) /\ shared[p]
        /\ call[c[p]].done
        /\ call[c[p]].value # Zero /\ call[c[p]].err # Nil

\* ------------------------------------------------------------ C26
\* C26: the caller that finds its call not done under the call's lock is the
\* first to do so and runs its own producer; every other caller of the call
\* finds it done and returns the stored outcome of that producer.
C26_FirstLocker ==
    \A p \in Gs :
        /\ (pc[p] = "check" /\ ~call[c[p]].done) => ran[c[p]] = <<>>
        /\ pc[p] \in {"fn", "setdone"} => ran[c[p]] = <<fn[p]>> /\ ~shared[p]
        /\ (pc[p] = "check" /\ call[c[p]].done) => Len(ran[c[p]]) = 1
        /\ Returned(p) =>
              /\ ~shared[p] => ran[c[p]] = <<fn[p]>>
              /\ ret[p] = FnResult(ran[c[p]][1])

\* The caller that created the call returns the outcome of the producer of a
\* caller that found the call in the registry and locked it first.
C26_Witness ==
    \E p, q \in Gs :
        /\ Returned(p) /\ Returned(q) /\ c[p] = c[q]
        /\ ~shared[p] /\ ok[p]
        /\ shared[q] /\ ~ok[q]
        /\ fn[p] # fn[q]
        /\ ret[q] = FnResult(fn[p])

InRegistry(p) == pc[p] \in {"lookup", "unlock"}

\* C28: a goroutine between Lock and Unlock of the registry holds the
\* registry lock, so no two are there together, and the mapping changes only
\* in a step of the holder of the lock.
C28_RegistryLocked ==
    /\ [](\A p \in Gs : InRegistry(p) => mu = <<"do", p>>)
    /\ [](Cardinality({p \in Gs : InRegistry(p)}) <= 1)
    /\ [][m' # m =>
            \/ \E p \in Gs : mu = <<"do", p>> /\ pc[p] = "lookup" /\ pc'[p] # pc[p]
            \/ mu # Unlocked /\ mu[1] = "go" /\ mu' = Unlocked]_vars

\* One goroutine is in the critical section while another waits for the lock
\* and a removal task is pending.
C28_Witness ==
    \E p, q \in Gs :
        /\ InRegistry(p) /\ pc[q] = "lock"
        /\ \E i \in CallIds : rm[i] > 0

\* ------------------------------------------------------------ C29
\* C29: after a producer has panicked its call stays locked, not done, without
\* a removal task and in the registry, and every other Do that holds the call
\* waits for its lock.
C29_PanicBlocks ==
    \A p \in Gs :
        pc[p] = "panicked" =>
            /\ call[c[p]].mu = p
            /\ ~call[c[p]].done
            /\ Result(c[p]) = <<Zero, Nil>>
            /\ rm[c[p]] = 0
            /\ m[key[p]] = c[p]
            /\ \A q \in Gs \ {p} :
                  (Attached(q) /\ c[q] = c[p]) => pc[q] \in {"unlock", "clock"}

\* ------------------------------------------------------------ C30
\* Every Do has returned and every removal task has run.
Quiescent ==
    /\ \A p \in Gs : ~InDo(p)
    /\ \A i \in CallIds : rm[i] = 0
    /\ mu = Unlocked

\* C30: when every Do has returned and every removal task has run, the
\* registry is empty.
C30_NoLeak ==
    Quiescent => \A k \in Keys : m[k] = NoCall

\* All Do calls were made, on more than one call, and nothing is pending.
C30_Witness ==
    /\ Quiescent
    /\ \A p \in Gs : nDo[p] = MaxDo
    /\ Cardinality(Allocated) > 1

\* ------------------------------------------------------------ C21
\* The goroutines between a returned Lock(k) or GetAndLock(k) and the
\* matching Unlock(k).
Holders(k) == {p \in DOMAIN lk : k \in lk[p].holds}
Locking(p, k) == lk[p].pc # "idle" /\ Acquires(lk[p].op) /\ lk[p].id = k

\* C21: a key has at most one holder, and a Lock(k) or GetAndLock(k) made
\* while another goroutine holds k waits for the holder's Unlock(k) and then
\* acquires: it never ends in a panic or a fatal error of the runtime.
C21_MutualExclusion ==
    /\ \A k \in LKeys : Cardinality(Holders(k)) <= 1
    /\ \A k \in LKeys : \A p \in DOMAIN lk :
          (Locking(p, k) /\ Holders(k) \ {p} # {}) => halt = "no"

\* ------------------------------------------------------------ C22
\* A goroutine inside the critical section of a cache method.
Inside(p) == g[p].pc \in {"body", "store", "unlock"}

\* C22: two goroutines are inside their critical sections together only on
\* a ReadHeavyCache and only when neither is a Set, Delete, Clear or
\* SetItems; on a WriteHeavyCache at most one goroutine is inside.
C22_ReadersShareWritersExclude ==
    \A p, q \in DOMAIN g :
        (p # q /\ Inside(p) /\ Inside(q)) =>
            /\ kind = "ReadHeavyCache"
            /\ ~Writes(g[p].op)
            /\ ~Writes(g[q].op)

\* Two Get calls of a ReadHeavyCache inside together, one of them made by a
\* goroutine that has returned from an earlier call.
C22_Witness ==
    \E p, q \in DOMAIN g :
        /\ p # q
        /\ kind = "ReadHeavyCache"
        /\ Inside(p) /\ g[p].op = "Get"
        /\ Inside(q) /\ g[q].op = "Get"
        /\ g[p].n > 0

\* ------------------------------------------------------------ C23
AllFinished == \A p \in DOMAIN g : g[p].pc = "idle"

\* C23: after concurrent Sets on disjoint keys have all returned, every
\* written key is found with the value its writer set last.
C23_NoLostWrite ==
    AllFinished =>
        \A k \in DOMAIN lastSet : Lookup(items, k) = <<lastSet[k], TRUE>>

\* Both goroutines made all their Sets, the last ones with different values.
C23_Witness ==
    /\ AllFinished
    /\ DOMAIN g # {}
    /\ \A p \in DOMAIN g : KeysOf(p) # {} => g[p].n = MaxCacheOps
    /\ DOMAIN lastSet = CKeys
    /\ lastSet["a"] # lastSet["b"]

\* ------------------------------------------------------------ C36
\* C36: a key leaves the registry only by the removal task of the call that
\* is registered under it: the task started by a Do attached to call i never
\* deletes another call.
C36_RemovesOwnCall ==
    [][\A k \in Keys :
          (m[k] # NoCall /\ m'[k] = NoCall) => mu = <<"go", m[k]>>]_vars

\* ------------------------------------------------------------ C37
\* The call locks a goroutine holds.
HeldCalls(p) == {i \in CallIds : call[i].mu = p}
RemovalHoldsRegistry == mu # Unlocked /\ mu[1] = "go"

\* C37: a goroutine that holds the registry lock holds no call lock, a
\* goroutine past sf.mu.Unlock() no longer holds the registry lock, and the
\* steps of a removal task leave every call lock as it is.
C37_LockDiscipline ==
    /\ [](\A p \in Gs :
            /\ mu = <<"do", p>> => HeldCalls(p) = {}
            /\ HeldCalls(p) # {} => mu # <<"do", p>>
            /\ pc[p] \in {"clock", "check", "fn", "setdone", "cunlock"} =>
                  mu # <<"do", p>>)
    /\ [][(mu' # mu /\ (RemovalHoldsRegistry \/ RemovalHoldsRegistry')) =>
             \A i \in CallIds : call'[i].mu = call[i].mu]_vars

\* One goroutine runs its producer under a call's lock while a removal task
\* holds the registry lock and another goroutine waits for the registry.
C37_Witness ==
    /\ RemovalHoldsRegistry
    /\ \E p, q \in Gs :
          /\ p # q
          /\ pc[p] = "fn" /\ HeldCalls(p) = {c[p]}
          /\ pc[q] = "lock"

\* ------------------------------------------------------------ C32
\* The keys that have, or are being given, an entry in lm.locks.
KeysEntered == {k \in LKeys : lm.locks[k] # NoMutex \/ lm.writing = k}

\* C32: one mutex is created per key and its entry is never replaced or
\* removed; distinct keys have distinct mutexes; every Lock, GetAndLock and
\* Unlock of a key operates on the mutex of that key; and a Lock of a key
\* nobody holds finds its mutex unlocked, whatever other keys are held.
C32_OneMutexPerKey ==
    /\ [](Len(mtx) = Cardinality(KeysEntered))
    /\ [](\A k1, k2 \in LKeys :
            (k1 # k2 /\ lm.locks[k1] # NoMutex) => lm.locks[k1] # lm.locks[k2])
    /\ [][\A k \in LKeys :
            lm.locks[k] # NoMutex => lm.locks'[k] = lm.locks[k]]_vars
    /\ [](\A p \in DOMAIN lk :
            lk[p].pc = "got" =>
                /\ lk[p].lock # NoMutex
                /\ lk[p].lock = lm.locks[lk[p].id]
                /\ (Acquires(lk[p].op) /\ Holders(lk[p].id) = {}) =>
                      ~mtx[lk[p].lock])

\* ------------------------------------------------------------ C33
\* A goroutine executes a read of lm.locks in getMutex.
ReadsLocks(p) == lk[p].pc \in {"first", "second"} /\ lk'[p].pc # lk[p].pc

\* C33: no read of lm.locks in getMutex is made while another goroutine's
\* insertion into lm.locks is in progress.
C33_RaceFree ==
    [][\A p \in DOMAIN lk : ReadsLocks(p) => lm.writing = NoWrite]_vars

\* ------------------------------------------------------------ C31
\* The sum of the deltas of the returned Incr calls on key k.
RECURSIVE SumOf(_, _)
SumOf(h, k) ==
    IF h = <<>> THEN 0
    ELSE (IF h[1].key = k THEN h[1].arg ELSE 0) + SumOf(Tail(h), k)
Incremented == {log[i].key : i \in DOMAIN log}

\* C31 as stated: after the concurrent Incr calls have returned, the key
\* holds its value before them (0 if absent) plus the sum of the deltas.
C31_AsStated ==
    AllFinished =>
        \A k \in Incremented :
            Lookup(items, k) = <<Lookup(out.pre, k)[1] + SumOf(log, k), TRUE>>

\* C31 amended: the key holds that sum computed in V, which wraps.
C31_NoLostIncr ==
    AllFinished =>
        \A k \in Incremented :
            Lookup(items, k) =
                <<Wrap(Lookup(out.pre, k)[1] + SumOf(log, k)), TRUE>>

\* Every goroutine made all its Incr calls on one key that had a value, and
\* the sum is beyond the largest V.
C31_Witness ==
    /\ AllFinished
    /\ Len(log) = NWorkers * MaxCacheOps
    /\ Incremented = {"a"}
    /\ Has(out.pre, "a")
    /\ out.pre["a"] + SumOf(log, "a") > MaxV

\* ------------------------------------------------------------ C34
\* The values appended so far, in the order in which the Appends took
\* effect, and the Rotate results so far, one after the other.
RECURSIVE AllAppended(_)
AllAppended(h) ==
    IF h = <<>> THEN <<>>
    ELSE (IF h[1].op = "Append" THEN <<h[1].arg>> ELSE <<>>)
         \o AllAppended(Tail(h))
RECURSIVE AllRotated(_)
AllRotated(h) ==
    IF h = <<>> THEN <<>>
    ELSE (IF h[1].op = "Rotate" THEN h[1].arg ELSE <<>>)
         \o AllRotated(Tail(h))
RotateResults == {log[i].arg : i \in {j \in DOMAIN log : log[j].op = "Rotate"}}

\* C34: the Rotate results, in order, followed by the current contents are
\* exactly the appended values in the order their Appends took effect: each
\* value is in one place only and none is lost; and what a Rotate returns is
\* one of those results.
C34_RotatePartitions ==
    kind = "RollingCache" =>
        /\ AllRotated(log) \o items = AllAppended(log)
        /\ \A p \in DOMAIN g :
              (g[p].op = "Rotate" /\ g[p].pc \in {"unlock", "idle"}) =>
                  g[p].out[1] \in RotateResults

\* All calls have returned; one Rotate handed out values of two goroutines,
\* and a value appended after it is in the cache.
C34_Witness ==
    /\ kind = "RollingCache"
    /\ AllFinished
    /\ DOMAIN g # {}
    /\ items # <<>>
    /\ \E r \in RotateResults :
          /\ Len(r) > length
          /\ \E i, j \in DOMAIN r : r[i] \div 10 # r[j] \div 10

\* ------------------------------------------------------------ C35
\* The position of the last GetItems in the history (0 if none), and
\* whether a Clear, SetItems or Rotate came after it.
LastGetItems ==
    IF \E i \in DOMAIN log : log[i].op = "GetItems"
    THEN CHOOSE i \in DOMAIN log :
            /\ log[i].op = "GetItems"
            /\ \A j \in DOMAIN log : log[j].op = "GetItems" => j <= i
    ELSE 0
ReplacedSince ==
    \E j \in DOMAIN log :
        j > LastGetItems /\ log[j].op \in {"Clear", "SetItems", "Rotate"}
CacheStep == log' # log /\ log'[Len(log')].op # "CallerWrite"

====
